---- MODULE Spec2Model ----
(***************************************************************************)
(* Model of pilot/pkg/model/validation.go: the configuration validation    *)
(* engine of the control plane.  A caller holds one typed configuration    *)
(* object at a time (config) and invokes validators on it; the primitive   *)
(* validators are invoked on scalar inputs.  Every action is one complete   *)
(* call; op names the function called, arg its scalar inputs, ret what it  *)
(* returned.                                                               *)
(*                                                                         *)
(* A Go string is modelled as a sequence of one-character strings, so that *)
(* the character-level grammars (regular expressions, splitting, prefix    *)
(* tests) are computed and not assumed.  An error value is a record        *)
(* [tag, errors]: tag "nil" is the absent outcome, "single" a plain error, *)
(* "multi" a *multierror.Error whose Errors list is errors, and "panic"    *)
(* an abnormal termination of the call (nil pointer dereference).          *)
(***************************************************************************)
EXTENDS Integers, Sequences, FiniteSets, TLC

VARIABLES op, arg, config, ret, calls, table

vars == <<op, arg, config, ret, calls, table>>

-----------------------------------------------------------------------------
(* Bounds of the model *)

\* longest string enumerated exhaustively over Alphabet
MaxStrLen == 4
\* longest Errors list of an aggregated outcome handed to appendErrors
MaxMulti == 2
\* largest number of variadic arguments handed to appendErrors
MaxArgs == 2
\* most servers of a gateway
MaxServers == 2
\* most ports of an egress rule
MaxEgressPorts == 2
\* most endpoints of a service entry
MaxEndpoints == 2
\* most peer methods and most origin methods of an authentication policy
MaxMethods == 2
\* longest list of weighted destinations of a route
MaxRoutes == 3
\* most calls of validators in progress at the same time
MaxWorkers == 2
\* most patterns of an HTTP API spec
MaxPatterns == 2

-----------------------------------------------------------------------------
(* Characters and strings *)

Lower == {"a","b","c","d","e","f","g","h","i","j","k","l","m",
          "n","o","p","q","r","s","t","u","v","w","x","y","z"}
Upper == {"A","B","C","D","E","F","G","H","I","J","K","L","M",
          "N","O","P","Q","R","S","T","U","V","W","X","Y","Z"}
Digit == {"0","1","2","3","4","5","6","7","8","9"}

\* the characters the enumerated inputs are built from
Alphabet == {"a", "-", "*", ".", "_"}

\* all sequences over cs of length at most n
SeqsUpTo(cs, n) == UNION {[1..k -> cs] : k \in 0..n}

\* strings.Repeat(c, n)
Repeat(c, n) == [i \in 1..n |-> c]

\* s[i:] of Go, i counted from 0
From(s, i) == SubSeq(s, i + 1, Len(s))

\* strings.HasPrefix(s, p)
HasPrefix(s, p) == Len(s) >= Len(p) /\ SubSeq(s, 1, Len(p)) = p

\* strings.Count(s, c) for a one-character c
Count(s, c) == Cardinality({i \in 1..Len(s) : s[i] = c})

\* strings.Contains(s, c) for a one-character c
Contains(s, c) == \E i \in 1..Len(s) : s[i] = c

\* index of the first c in s at or after position i, Len(s)+1 when none
RECURSIVE IndexFrom(_, _, _)
IndexFrom(s, c, i) ==
  IF i > Len(s) THEN Len(s) + 1
  ELSE IF s[i] = c THEN i
  ELSE IndexFrom(s, c, i + 1)

\* strings.Split(s, c): always at least one part
RECURSIVE Split(_, _)
Split(s, c) ==
  LET k == IndexFrom(s, c, 1)
  IN IF k > Len(s) THEN <<s>>
     ELSE <<SubSeq(s, 1, k - 1)>> \o Split(SubSeq(s, k + 1, Len(s)), c)

\* strings.SplitN(s, c, 2): the first part and the unsplit rest
SplitN2(s, c) ==
  LET k == IndexFrom(s, c, 1)
  IN IF k > Len(s) THEN <<s>>
     ELSE <<SubSeq(s, 1, k - 1), SubSeq(s, k + 1, Len(s))>>

-----------------------------------------------------------------------------
(* Program constants *)

dns1123LabelMaxLength == 63
DNSNameMaxLength == 255
MinPort == 1
MaxPort == 65535

-----------------------------------------------------------------------------
(* Regular expressions, by the structure of their patterns *)

IsAlnum(c) == c \in Lower \cup Upper \cup Digit

\* the class [-a-z-A-Z0-9]
IsAlnumOrDash(c) == c = "-" \/ IsAlnum(c)

\* s matches dns1123LabelFmt from its first to its last character:
\* [a-zA-Z0-9]([-a-z-A-Z0-9]*[a-zA-Z0-9])?
dns1123LabelFmt(s) ==
  /\ Len(s) >= 1
  /\ IsAlnum(s[1])
  /\ Len(s) > 1 => /\ \A i \in 2..(Len(s) - 1) : IsAlnumOrDash(s[i])
                   /\ IsAlnum(s[Len(s)])

\* "^" + dns1123LabelFmt + "$": one concatenation, anchored at both ends
dns1123LabelRegexp(s) == dns1123LabelFmt(s)

\* (\*|\*-)?(dns1123LabelFmt) matched against the whole of t
WildcardOrLabel(t) ==
  \/ dns1123LabelFmt(t)
  \/ Len(t) >= 1 /\ t[1] = "*" /\ dns1123LabelFmt(From(t, 1))
  \/ Len(t) >= 2 /\ t[1] = "*" /\ t[2] = "-" /\ dns1123LabelFmt(From(t, 2))

\* "^" + wildcardPrefix + "$" = ^\*|(\*|\*-)?(dns1123LabelFmt)$ : the
\* alternation binds weaker than the anchors, so the pattern is
\* (^\*) | ((\*|\*-)?(label)$), and MatchString looks for a match anywhere:
\* the first branch needs a leading `*`, the second a suffix of s.
wildcardPrefixRegexp(s) ==
  \/ Len(s) >= 1 /\ s[1] = "*"
  \/ \E i \in 0..(Len(s) - 1) : WildcardOrLabel(From(s, i))

-----------------------------------------------------------------------------
(* Error values *)

\* the nil error: the absent outcome
Nil == [tag |-> "nil", errors |-> <<>>]

\* fmt.Errorf / errors.New: one plain failure
Err(m) == [tag |-> "single", errors |-> <<m>>]

\* a *multierror.Error with the given Errors list
Multi(ms) == [tag |-> "multi", errors |-> ms]

\* the call did not return: a run-time panic
Panic == [tag |-> "panic", errors |-> <<>>]

\* the result of a predicate
Bool(b) == [tag |-> IF b THEN "true" ELSE "false", errors |-> <<>>]

IsNil(e) == e.tag = "nil"

\* the failures a caller can enumerate in an outcome
Failures(e) == e.errors

\* the Errors contributed by the variadic arguments of multierror.Append:
\* a *multierror.Error argument is flattened, a plain error is appended,
\* a nil argument is skipped
RECURSIVE FlattenErrors(_)
FlattenErrors(errs) ==
  IF errs = <<>> THEN <<>>
  ELSE Head(errs).errors \o FlattenErrors(Tail(errs))

\* the Errors contributed by the variadic arguments when an aggregated
\* argument is taken as one entry instead of being flattened
RECURSIVE FlattenErrorsFirstOnly(_)
FlattenErrorsFirstOnly(errs) ==
  IF errs = <<>> THEN <<>>
  ELSE (IF Head(errs).errors = <<>> THEN <<>> ELSE <<Head(Head(errs).errors)>>)
       \o FlattenErrorsFirstOnly(Tail(errs))

\* multierror.Append without the flattening of aggregated arguments
multierrorAppendUnflattened(err, errs) ==
  Multi(err.errors \o FlattenErrorsFirstOnly(errs))

\* multierror.Append(err, errs...): always a *multierror.Error
multierrorAppend(err, errs) == Multi(err.errors \o FlattenErrors(errs))

\* the closure appendError of appendErrors, with the nil tests exchanged
\* for a single test of the accumulated error
appendErrorKeepFirst(err, err2) ==
  IF IsNil(err) THEN err2
  ELSE err

\* the closure appendError of appendErrors, handing every pair to
\* multierror.Append without the nil tests
appendErrorAlwaysAppend(err, err2) == multierrorAppend(err, <<err2>>)

\* the closure appendError of appendErrors
appendError(err, err2) ==
  IF IsNil(err) THEN err2
  ELSE IF IsNil(err2) THEN err
  ELSE multierrorAppend(err, <<err2>>)

\* appendErrors(err, errs...): the left fold of appendError over errs
RECURSIVE appendErrors(_, _)
appendErrors(err, errs) ==
  IF errs = <<>> THEN err
  ELSE appendErrors(appendError(err, Head(errs)), Tail(errs))

-----------------------------------------------------------------------------
(* Primitive validators *)

\* ValidatePort with the lower bound tested strictly
ValidatePortStrict(port) ==
  IF MinPort < port /\ port <= MaxPort THEN Nil
  ELSE Err("port number must be in the range 1..65535")

ValidatePort(port) ==
  IF MinPort <= port /\ port <= MaxPort THEN Nil
  ELSE Err("port number must be in the range 1..65535")

\* IsDNS1123Label without the length limit
IsDNS1123LabelNoLimit(value) == dns1123LabelRegexp(value)

IsDNS1123Label(value) ==
  Len(value) <= dns1123LabelMaxLength /\ dns1123LabelRegexp(value)

IsWildcardDNS1123Label(value) ==
  Len(value) <= dns1123LabelMaxLength /\ wildcardPrefixRegexp(value)

checkDNS1123Preconditions(name) ==
  IF Len(name) > DNSNameMaxLength THEN Err("domain name too long (max 255)")
  ELSE IF Len(name) = 0 THEN Err("empty domain name not allowed")
  ELSE Nil

\* the loop of validateDNS1123Labels over the labels not yet visited
RECURSIVE validateLabels(_)
validateLabels(labels) ==
  IF labels = <<>> THEN Nil
  ELSE IF ~IsDNS1123Label(Head(labels)) THEN Err("domain name invalid (label invalid)")
  ELSE validateLabels(Tail(labels))

validateDNS1123Labels(domain) == validateLabels(Split(domain, "."))

ValidateFQDN(fqdn) ==
  appendErrors(checkDNS1123Preconditions(fqdn), <<validateDNS1123Labels(fqdn)>>)

\* ValidateWildcardDomain testing every label as a wildcard label
ValidateWildcardDomainAnyLabel(domain) ==
  LET pre == checkDNS1123Preconditions(domain)
      parts == Split(domain, ".")
  IN IF ~IsNil(pre) THEN pre
     ELSE IF \E i \in 1..Len(parts) : ~IsWildcardDNS1123Label(parts[i])
     THEN Err("domain name invalid (label invalid)")
     ELSE Nil

ValidateWildcardDomain(domain) ==
  LET pre == checkDNS1123Preconditions(domain)
      parts == SplitN2(domain, ".")
  IN IF ~IsNil(pre) THEN pre
     ELSE IF ~IsWildcardDNS1123Label(parts[1])
     THEN Err("domain name invalid (label invalid)")
     ELSE IF Len(parts) > 1 THEN validateDNS1123Labels(parts[2])
     ELSE Nil

-----------------------------------------------------------------------------
(* Addresses *)

DigitValue ==
  [c \in Digit |->
     CASE c = "0" -> 0 [] c = "1" -> 1 [] c = "2" -> 2 [] c = "3" -> 3
       [] c = "4" -> 4 [] c = "5" -> 5 [] c = "6" -> 6 [] c = "7" -> 7
       [] c = "8" -> 8 [] c = "9" -> 9]

\* the value of a string of decimal digits
RECURSIVE Atoi(_)
Atoi(s) ==
  IF s = <<>> THEN 0
  ELSE 10 * Atoi(SubSeq(s, 1, Len(s) - 1)) + DigitValue[s[Len(s)]]

IsDigits(s) == Len(s) >= 1 /\ \A i \in 1..Len(s) : s[i] \in Digit

\* one field of a dotted-decimal address: at most three digits, no leading
\* zero, at most 255
IsDecimalOctet(s) ==
  /\ IsDigits(s)
  /\ Len(s) <= 3
  /\ (Len(s) > 1 => s[1] # "0")
  /\ Atoi(s) <= 255

IsDottedQuad(s) ==
  LET parts == Split(s, ".")
  IN Len(parts) = 4 /\ \A i \in 1..4 : IsDecimalOctet(parts[i])

\* the IPv6 literals of the inputs (none of them IPv4-mapped); every other
\* string with a colon is outside the inputs
IPv6Literals == {<<":", ":", "1">>, <<":", ":">>}

\* net.ParseIP: the family of the parsed address, "nil" when unparsable
ParseIP(s) ==
  IF IsDottedQuad(s) THEN "v4"
  ELSE IF s \in IPv6Literals THEN "v6"
  ELSE "nil"

\* net.ParseCIDR: address, a slash, a decimal prefix length within the
\* family's width
ParseCIDR(s) ==
  LET k == IndexFrom(s, "/", 1)
      ip == ParseIP(SubSeq(s, 1, k - 1))
      bits == SubSeq(s, k + 1, Len(s))
      width == IF ip = "v4" THEN 32 ELSE 128
  IN IF k > Len(s) \/ ip = "nil" THEN "nil"
     ELSE IF IsDigits(bits) /\ Len(bits) <= 3 /\ (Len(bits) > 1 => bits[1] # "0")
             /\ Atoi(bits) <= width
     THEN ip
     ELSE "nil"

validateCIDR(cidr) ==
  LET ip == ParseCIDR(cidr)
  IN IF ip = "nil" THEN Err("is not a valid CIDR block")
     ELSE IF ip # "v4" THEN Err("is not a valid IPv4 address")
     ELSE Nil

ValidateIPv4Address(addr) ==
  LET ip == ParseIP(addr)
  IN IF ip = "nil" THEN Err("is not a valid IP")
     ELSE IF ip # "v4" THEN Err("is not a valid IPv4 address")
     ELSE Nil

ValidateIPv4Subnet(subnet) ==
  IF Count(subnet, "/") = 1 THEN validateCIDR(subnet)
  ELSE ValidateIPv4Address(subnet)

\* path.IsAbs
IsAbs(path) == Len(path) > 0 /\ path[1] = "/"

\* ValidateUnixAddress without the test of path.IsAbs
ValidateUnixAddressAnyPath(addr) ==
  IF Len(addr) = 0 THEN Err("unix address must not be empty")
  ELSE Nil

ValidateUnixAddress(addr) ==
  IF Len(addr) = 0 THEN Err("unix address must not be empty")
  ELSE IF ~IsAbs(addr) THEN Err("is not an absolute path")
  ELSE Nil

UnixAddressPrefix == <<"u", "n", "i", "x", ":", "/", "/">>

\* strings.TrimPrefix
TrimPrefix(s, prefix) ==
  IF HasPrefix(s, prefix) THEN From(s, Len(prefix)) ELSE s

-----------------------------------------------------------------------------
(* Maps and labels *)

\* A Go map is a function; ranging over it visits its keys in an order the
\* run time chooses.  ord is a sequence that lists every key once: the keys
\* of m are visited in the order in which ord lists them.
KeysInOrder(m, ord) ==
  LET RECURSIVE pick(_)
      pick(o) == IF o = <<>> THEN <<>>
                 ELSE (IF Head(o) \in DOMAIN m THEN <<Head(o)>> ELSE <<>>)
                      \o pick(Tail(o))
  IN pick(ord)

\* the class of qualifiedNameFmt: [-A-Za-z0-9_./]
IsQualifiedNameChar(c) == IsAlnum(c) \/ c \in {"-", "_", ".", "/"}

\* "^" + qualifiedNameFmt + "$"
tagRegexp(s) == \A i \in 1..Len(s) : IsQualifiedNameChar(s[i])

\* the loop of Labels.Validate over the keys not yet visited
RECURSIVE LabelsValidateFrom(_, _, _)
LabelsValidateFrom(errs, l, keys) ==
  IF keys = <<>> THEN errs
  ELSE LET k == Head(keys)
           e1 == IF ~tagRegexp(k)
                 THEN multierrorAppend(errs, <<Err("invalid tag key")>>) ELSE errs
           e2 == IF ~tagRegexp(l[k])
                 THEN multierrorAppend(e1, <<Err("invalid tag value")>>) ELSE e1
       IN LabelsValidateFrom(e2, l, Tail(keys))

\* Labels.Validate
LabelsValidate(l, ord) == LabelsValidateFrom(Nil, l, KeysInOrder(l, ord))

-----------------------------------------------------------------------------
(* Protocols *)

\* an unset sub-message: the nil pointer
NilPtr == [nil |-> TRUE]

\* ParseProtocol: the protocol-name table, case-insensitive, with the
\* sentinel "Unsupported" for every other name
ParseProtocol(name) ==
  CASE name \in {"tcp", "TCP"} -> "TCP"
    [] name \in {"udp", "UDP"} -> "UDP"
    [] name \in {"grpc", "GRPC"} -> "GRPC"
    [] name \in {"http", "HTTP"} -> "HTTP"
    [] name \in {"http2", "HTTP2"} -> "HTTP2"
    [] name \in {"https", "HTTPS"} -> "HTTPS"
    [] name \in {"mongo", "MONGO"} -> "Mongo"
    [] name \in {"redis", "REDIS"} -> "Redis"
    [] OTHER -> "Unsupported"

\* the TCP-capable subset of the egress-supported protocols
IsEgressRulesSupportedTCPProtocol(protocol) == protocol \in {"TCP", "Mongo"}

\* the egress-supported protocols
IsEgressRulesSupportedProtocol(protocol) ==
  protocol \in {"HTTP", "HTTPS", "HTTP2", "GRPC"}
  \/ IsEgressRulesSupportedTCPProtocol(protocol)

-----------------------------------------------------------------------------
(* Gateway *)

validateServerPort(port) ==
  IF port = NilPtr THEN appendErrors(Nil, <<Err("port is required")>>)
  ELSE
    LET e1 == IF ParseProtocol(port.protocol) = "Unsupported"
              THEN appendErrors(Nil, <<Err("invalid protocol")>>) ELSE Nil
        e2 == IF port.number > 0
              THEN appendErrors(e1, <<ValidatePort(port.number)>>) ELSE e1
        e3 == IF port.name = <<>>
              THEN appendErrors(e2, <<Err("port name must be set")>>) ELSE e2
    IN e3

validateTLSOptions(tls) ==
  IF tls = NilPtr THEN Nil
  ELSE IF tls.mode = "SIMPLE" THEN
    (IF tls.serverCertificate = ""
     THEN appendErrors(Nil, <<Err("SIMPLE TLS requires a server certificate")>>)
     ELSE Nil)
  ELSE IF tls.mode = "MUTUAL" THEN
    LET e1 == IF tls.serverCertificate = ""
              THEN appendErrors(Nil, <<Err("MUTUAL TLS requires a server certificate")>>)
              ELSE Nil
    IN IF tls.caCertificates = ""
       THEN appendErrors(e1, <<Err("MUTUAL TLS requires a client CA bundle")>>)
       ELSE e1
  ELSE Nil

\* the loop of validateServer over the hosts not yet visited
RECURSIVE validateServerHosts(_, _)
validateServerHosts(errs, hosts) ==
  IF hosts = <<>> THEN errs
  ELSE LET err == ValidateWildcardDomain(Head(hosts))
           err2 == ValidateIPv4Subnet(Head(hosts))
       IN validateServerHosts(
            IF ~IsNil(err) /\ ~IsNil(err2) THEN appendErrors(errs, <<err, err2>>)
            ELSE errs,
            Tail(hosts))

validateServer(server) ==
  LET errs == IF Len(server.hosts) = 0
              THEN appendErrors(Nil, <<Err("server config must contain at least one host")>>)
              ELSE validateServerHosts(Nil, server.hosts)
  IN appendErrors(errs, <<validateTLSOptions(server.tls), validateServerPort(server.port)>>)

\* the loop of ValidateGateway that validates every server
RECURSIVE validateServers(_, _)
validateServers(errs, servers) ==
  IF servers = <<>> THEN errs
  ELSE validateServers(appendErrors(errs, <<validateServer(Head(servers))>>),
                       Tail(servers))

\* the loop of ValidateGateway that ensures unique port names; s.Port.Name
\* dereferences the port of the server, which panics on an unset port
RECURSIVE uniquePortNames(_, _, _)
uniquePortNames(errs, portNames, servers) ==
  IF servers = <<>> THEN errs
  ELSE LET s == Head(servers)
       IN IF s.port = NilPtr THEN Panic
          ELSE uniquePortNames(
                 IF s.port.name \in portNames
                 THEN appendErrors(errs, <<Err("port names in servers must be unique: duplicate name")>>)
                 ELSE errs,
                 portNames \cup {s.port.name},
                 Tail(servers))

ValidateGateway(msg) ==
  IF msg.kind # "Gateway" THEN appendErrors(Nil, <<Err("cannot cast to gateway")>>)
  ELSE
    LET errs == IF Len(msg.servers) = 0
                THEN appendErrors(Nil, <<Err("gateway must have at least one server")>>)
                ELSE validateServers(Nil, msg.servers)
    IN uniquePortNames(errs, {}, msg.servers)

-----------------------------------------------------------------------------
(* Egress rule *)

\* the value of the local variable domain of ValidateEgressRuleDomain when
\* it is handed to ValidateFQDN: a leading `*` and a following `.` or `-`
\* are cut off
TrimmedEgressDomain(domain) ==
  LET d1 == IF domain[1] = "*" THEN From(domain, 1) ELSE domain
  IN IF domain[1] = "*" /\ Len(d1) > 0 /\ d1[1] \in {".", "-"}
     THEN From(d1, 1)
     ELSE d1

ValidateEgressRuleDomain(domain) ==
  IF Len(domain) < 1 THEN Err("domain must not be empty string")
  ELSE IF domain[1] = "*" /\ Len(From(domain, 1)) = 0 THEN Nil
  ELSE ValidateFQDN(TrimmedEgressDomain(domain))

ValidateEgressRuleService(service) ==
  IF Count(service, "/") = 1 THEN validateCIDR(service)
  ELSE ValidateEgressRuleDomain(service)

ValidateEgressRuleDestination(destination) ==
  IF destination = NilPtr
  THEN Err("destination of egress rule must have destination field")
  ELSE
    LET e1 == IF destination.name # <<>>
              THEN multierrorAppend(Nil, <<Err("destination of egress rule must not have name field")>>)
              ELSE Nil
        e2 == IF destination.namespace # <<>>
              THEN multierrorAppend(e1, <<Err("destination of egress rule must not have namespace field")>>)
              ELSE e1
        e3 == IF destination.domain # <<>>
              THEN multierrorAppend(e2, <<Err("destination of egress rule must not have domain field")>>)
              ELSE e2
        e4 == IF Cardinality(DOMAIN destination.labels) > 0
              THEN multierrorAppend(e3, <<Err("destination of egress rule must not have labels field")>>)
              ELSE e3
        err == ValidateEgressRuleService(destination.service)
    IN IF ~IsNil(err) THEN multierrorAppend(e4, <<err>>) ELSE e4

ValidateEgressRulePort(port) ==
  LET err == ValidatePort(port.port)
  IN IF ~IsNil(err) THEN err
     ELSE IF ~IsEgressRulesSupportedProtocol(ParseProtocol(port.protocol))
     THEN Err("egress rule support is available only for the following protocols")
     ELSE Nil

\* the loop of ValidateEgressRule over the ports not yet visited
RECURSIVE validateEgressPorts(_, _, _, _)
validateEgressPorts(errs, ports, cidrDestinationService, rest) ==
  IF rest = <<>> THEN errs
  ELSE
    LET port == Head(rest)
        e1 == IF port.port \in ports
              THEN multierrorAppend(errs, <<Err("duplicate port")>>) ELSE errs
        err == ValidateEgressRulePort(port)
        e2 == IF ~IsNil(err) THEN multierrorAppend(e1, <<err>>) ELSE e1
        e3 == IF cidrDestinationService
                 /\ ~IsEgressRulesSupportedTCPProtocol(ParseProtocol(port.protocol))
              THEN multierrorAppend(e2, <<Err("Only the following protocols can be defined for CIDR destination service notation")>>)
              ELSE e2
    IN validateEgressPorts(e3, ports \cup {port.port}, cidrDestinationService, Tail(rest))

ValidateEgressRule(msg) ==
  IF msg.kind # "EgressRule" THEN Err("cannot cast to egress rule")
  ELSE
    LET destination == msg.destination
        err == ValidateEgressRuleDestination(destination)
        e1 == IF ~IsNil(err) THEN multierrorAppend(Nil, <<err>>) ELSE Nil
        e2 == IF Len(msg.ports) = 0
              THEN multierrorAppend(e1, <<Err("egress rule must have a ports list")>>)
              ELSE e1
        cidrDestinationService ==
          destination # NilPtr /\ Count(destination.service, "/") = 1
        e3 == validateEgressPorts(e2, {}, cidrDestinationService, msg.ports)
    IN IF msg.useEgressProxy
       THEN multierrorAppend(e3, <<Err("directing traffic through egress proxy is not implemented yet")>>)
       ELSE e3

\* the egress rule the caller holds after ValidateEgressRule, had the
\* assignments to domain in ValidateEgressRuleDomain reached the rule
AfterValidateEgressRuleAliased(msg) ==
  IF msg.kind = "EgressRule" /\ msg.destination # NilPtr
     /\ Count(msg.destination.service, "/") # 1
     /\ Len(msg.destination.service) >= 1
  THEN [msg EXCEPT !.destination.service = TrimmedEgressDomain(@)]
  ELSE msg

\* the egress rule the caller holds after ValidateEgressRule: the validator
\* assigns only to its own locals; the parameter domain of
\* ValidateEgressRuleDomain is a copy of the string header
AfterValidateEgressRule(msg) == msg

-----------------------------------------------------------------------------
(* Service entry *)

validatePortName(name) ==
  IF ~IsDNS1123Label(name) THEN Err("invalid port name") ELSE Nil

validateProtocol(protocol) ==
  IF ParseProtocol(protocol) = "Unsupported" THEN Err("unsupported protocol") ELSE Nil

\* the loop of ValidateServiceEntry over the hosts not yet visited
RECURSIVE serviceEntryHosts(_, _)
serviceEntryHosts(errs, hosts) ==
  IF hosts = <<>> THEN errs
  ELSE LET host == Head(hosts)
       IN serviceEntryHosts(
            IF host = <<"*">> \/ ~Contains(host, ".")
            THEN appendErrors(errs, <<Err("invalid host")>>)
            ELSE appendErrors(errs, <<ValidateWildcardDomain(host)>>),
            Tail(hosts))

\* the loop of ValidateServiceEntry over the addresses not yet visited
RECURSIVE serviceEntryAddresses(_, _)
serviceEntryAddresses(errs, addresses) ==
  IF addresses = <<>> THEN errs
  ELSE serviceEntryAddresses(appendErrors(errs, <<validateCIDR(Head(addresses))>>),
                             Tail(addresses))

\* the loop of ValidateServiceEntry over the ports, with the port number
\* looked up only when the port name is new
RECURSIVE serviceEntryUniquePortsFirstOnly(_, _, _, _)
serviceEntryUniquePortsFirstOnly(errs, servicePorts, servicePortNumbers, ports) ==
  IF ports = <<>> THEN errs
  ELSE
    LET port == Head(ports)
    IN serviceEntryUniquePortsFirstOnly(
         IF port.name \in servicePorts
         THEN appendErrors(errs, <<Err("service entry port name already defined")>>)
         ELSE IF port.number \in servicePortNumbers
         THEN appendErrors(errs, <<Err("service entry port already defined")>>)
         ELSE errs,
         servicePorts \cup {port.name},
         servicePortNumbers \cup {port.number}, Tail(ports))

\* the loop of ValidateServiceEntry that fills servicePorts and
\* servicePortNumbers, over the ports not yet visited
RECURSIVE serviceEntryUniquePorts(_, _, _, _)
serviceEntryUniquePorts(errs, servicePorts, servicePortNumbers, ports) ==
  IF ports = <<>> THEN errs
  ELSE
    LET port == Head(ports)
        e1 == IF port.name \in servicePorts
              THEN appendErrors(errs, <<Err("service entry port name already defined")>>)
              ELSE errs
        e2 == IF port.number \in servicePortNumbers
              THEN appendErrors(e1, <<Err("service entry port already defined")>>)
              ELSE e1
    IN serviceEntryUniquePorts(e2, servicePorts \cup {port.name},
                               servicePortNumbers \cup {port.number}, Tail(ports))

\* the keys of servicePorts after the loop
ServicePortNames(ports) == {ports[i].name : i \in 1..Len(ports)}

\* the loop over endpoint.Ports in STATIC resolution, over the names not
\* yet visited
RECURSIVE staticEndpointPorts(_, _, _)
staticEndpointPorts(errs, servicePorts, names) ==
  IF names = <<>> THEN errs
  ELSE staticEndpointPorts(
         IF Head(names) \notin servicePorts
         THEN appendErrors(errs, <<Err("endpoint port is not defined by the service entry")>>)
         ELSE errs,
         servicePorts, Tail(names))

\* the loop over the endpoints in STATIC resolution, over the endpoints not
\* yet visited
RECURSIVE staticEndpoints(_, _, _, _)
staticEndpoints(errs, servicePorts, endpoints, ord) ==
  IF endpoints = <<>> THEN errs
  ELSE
    LET endpoint == Head(endpoints)
        addr == endpoint.address
        e1 == IF HasPrefix(addr, UnixAddressPrefix)
              THEN LET u == appendErrors(errs,
                              <<ValidateUnixAddress(TrimPrefix(addr, UnixAddressPrefix))>>)
                   IN IF Cardinality(DOMAIN endpoint.ports) # 0
                      THEN appendErrors(u, <<Err("unix endpoint must not include ports")>>)
                      ELSE u
              ELSE staticEndpointPorts(
                     appendErrors(errs, <<ValidateIPv4Address(addr)>>),
                     servicePorts, KeysInOrder(endpoint.ports, ord))
        e2 == appendErrors(e1, <<LabelsValidate(endpoint.labels, ord)>>)
    IN staticEndpoints(e2, servicePorts, Tail(endpoints), ord)

\* the loop over the hosts in DNS resolution without endpoints, with the
\* host tested by ValidateWildcardDomain
RECURSIVE dnsHostsWildcardAllowed(_, _)
dnsHostsWildcardAllowed(errs, hosts) ==
  IF hosts = <<>> THEN errs
  ELSE dnsHostsWildcardAllowed(
         IF ~IsNil(ValidateWildcardDomain(Head(hosts)))
         THEN appendErrors(errs, <<Err("hosts must be FQDN if no endpoints are provided for discovery mode DNS")>>)
         ELSE errs,
         Tail(hosts))

\* the loop over the hosts in DNS resolution without endpoints
RECURSIVE dnsHosts(_, _)
dnsHosts(errs, hosts) ==
  IF hosts = <<>> THEN errs
  ELSE dnsHosts(
         IF ~IsNil(ValidateFQDN(Head(hosts)))
         THEN appendErrors(errs, <<Err("hosts must be FQDN if no endpoints are provided for discovery mode DNS")>>)
         ELSE errs,
         Tail(hosts))

\* the loop over endpoint.Ports in DNS resolution
RECURSIVE dnsEndpointPorts(_, _, _, _)
dnsEndpointPorts(errs, servicePorts, ports, names) ==
  IF names = <<>> THEN errs
  ELSE
    LET name == Head(names)
        e1 == IF name \notin servicePorts
              THEN appendErrors(errs, <<Err("endpoint port is not defined by the service entry")>>)
              ELSE errs
        e2 == appendErrors(e1, <<validatePortName(name), ValidatePort(ports[name])>>)
    IN dnsEndpointPorts(e2, servicePorts, ports, Tail(names))

\* the loop over the endpoints in DNS resolution
RECURSIVE dnsEndpoints(_, _, _, _)
dnsEndpoints(errs, servicePorts, endpoints, ord) ==
  IF endpoints = <<>> THEN errs
  ELSE
    LET endpoint == Head(endpoints)
        e1 == appendErrors(errs, <<ValidateFQDN(endpoint.address),
                                   LabelsValidate(endpoint.labels, ord)>>)
        e2 == dnsEndpointPorts(e1, servicePorts, endpoint.ports,
                               KeysInOrder(endpoint.ports, ord))
    IN dnsEndpoints(e2, servicePorts, Tail(endpoints), ord)

\* the final loop of ValidateServiceEntry over the ports
RECURSIVE serviceEntryPorts(_, _)
serviceEntryPorts(errs, ports) ==
  IF ports = <<>> THEN errs
  ELSE LET port == Head(ports)
       IN serviceEntryPorts(
            appendErrors(errs, <<validatePortName(port.name),
                                 validateProtocol(port.protocol),
                                 ValidatePort(port.number)>>),
            Tail(ports))

\* the switch of ValidateServiceEntry on the resolution mode
serviceEntryResolution(errs, serviceEntry, ord) ==
  LET servicePorts == ServicePortNames(serviceEntry.ports)
      endpoints == serviceEntry.endpoints
  IN CASE serviceEntry.resolution = "NONE" ->
            (IF Len(endpoints) # 0
             THEN appendErrors(errs, <<Err("no endpoints should be provided for discovery type none")>>)
             ELSE errs)
       [] serviceEntry.resolution = "STATIC" ->
            LET e1 == IF Len(endpoints) = 0
                      THEN appendErrors(errs, <<Err("endpoints must be provided if service entry discovery mode is static")>>)
                      ELSE errs
                e2 == staticEndpoints(e1, servicePorts, endpoints, ord)
                unixEndpoint == \E i \in 1..Len(endpoints) :
                                  HasPrefix(endpoints[i].address, UnixAddressPrefix)
            IN IF unixEndpoint /\ Len(serviceEntry.ports) # 1
               THEN appendErrors(e2, <<Err("exactly 1 service port required for unix endpoints")>>)
               ELSE e2
       [] serviceEntry.resolution = "DNS" ->
            LET e1 == IF Len(endpoints) = 0
                      THEN dnsHosts(errs, serviceEntry.hosts)
                      ELSE errs
            IN dnsEndpoints(e1, servicePorts, endpoints, ord)
       [] OTHER ->
            appendErrors(errs, <<Err("unsupported resolution type")>>)

ValidateServiceEntry(config_, ord) ==
  IF config_.kind # "ServiceEntry" THEN Err("cannot cast to service entry")
  ELSE
    LET serviceEntry == config_
        e1 == IF Len(serviceEntry.hosts) = 0
              THEN appendErrors(Nil, <<Err("service entry must have at least one host")>>)
              ELSE Nil
        e2 == serviceEntryHosts(e1, serviceEntry.hosts)
        e3 == serviceEntryAddresses(e2, serviceEntry.addresses)
        e4 == serviceEntryUniquePorts(e3, {}, {}, serviceEntry.ports)
        e5 == serviceEntryResolution(e4, serviceEntry, ord)
    IN serviceEntryPorts(e5, serviceEntry.ports)

\* the endpoint as it would be, had the validator stored the address it
\* trims for ValidateUnixAddress
TrimmedEndpoint(endpoint) ==
  [endpoint EXCEPT !.address = TrimPrefix(@, UnixAddressPrefix)]

\* the service entry the caller holds after ValidateServiceEntry, had
\* strings.TrimPrefix written the trimmed address back to the endpoint
AfterValidateServiceEntryAliased(msg) ==
  IF msg.kind = "ServiceEntry" /\ msg.resolution = "STATIC"
  THEN [msg EXCEPT !.endpoints =
          [i \in 1..Len(@) |-> TrimmedEndpoint(@[i])]]
  ELSE msg

\* the service entry the caller holds after ValidateServiceEntry: the
\* validator writes only to its own maps servicePorts and servicePortNumbers
\* and to its result
AfterValidateServiceEntry(msg) == msg

-----------------------------------------------------------------------------
(* Durations *)

NanosPerSecond == 1000000000
NanosPerMillisecond == 1000000

\* ptypes.Duration / types.DurationFromProto: whether the wire duration
\* [seconds, nanos] decodes.  nanos must lie strictly within one second and
\* must not differ in sign from seconds.  (The bound of 10000 years on
\* seconds is beyond the seconds the inputs carry.)
DurationDecodes(pd) ==
  /\ pd # NilPtr
  /\ -NanosPerSecond < pd.nanos /\ pd.nanos < NanosPerSecond
  /\ ~(pd.seconds < 0 /\ pd.nanos > 0)
  /\ ~(pd.seconds > 0 /\ pd.nanos < 0)

\* dur < time.Millisecond, for a duration that decodes
LessThanMillisecond(pd) ==
  pd.seconds < 0 \/ (pd.seconds = 0 /\ pd.nanos < NanosPerMillisecond)

\* dur % time.Millisecond != 0, for a duration that decodes
NotMillisecondMultiple(pd) == pd.nanos % NanosPerMillisecond # 0

\* ValidateDuration without the test of the millisecond precision
ValidateDurationAnyPrecision(pd) ==
  IF ~DurationDecodes(pd) THEN Err("duration does not decode")
  ELSE IF LessThanMillisecond(pd) THEN Err("duration must be greater than 1ms")
  ELSE Nil

ValidateDuration(pd) ==
  IF ~DurationDecodes(pd) THEN Err("duration does not decode")
  ELSE IF LessThanMillisecond(pd) THEN Err("duration must be greater than 1ms")
  ELSE IF NotMillisecondMultiple(pd) THEN Err("only durations to ms precision are supported")
  ELSE Nil

\* ValidateGogoDuration reads in.Seconds and in.Nanos: a nil in panics
ValidateGogoDuration(in) ==
  IF in = NilPtr THEN Panic
  ELSE ValidateDuration([seconds |-> in.seconds, nanos |-> in.nanos])

\* ValidateDurationGogo: the same checks on the gogo variant of the message
ValidateDurationGogo(pd) ==
  IF ~DurationDecodes(pd) THEN Err("duration does not decode")
  ELSE IF LessThanMillisecond(pd) THEN Err("duration must be greater than 1ms")
  ELSE IF NotMillisecondMultiple(pd) THEN Err("only durations to ms precision are supported")
  ELSE Nil

\* A decoded time.Duration is held as the pair [seconds, nanos] it was
\* decoded from: the two parts never differ in sign, so the pairs are
\* ordered as the spans are.
Seconds(n) == [seconds |-> n, nanos |-> 0]

\* a < b for two time.Duration values
DurationLess(a, b) ==
  a.seconds < b.seconds \/ (a.seconds = b.seconds /\ a.nanos < b.nanos)

\* dur % time.Second != 0
NotSecondMultiple(dur) == dur.nanos # 0

discoveryRefreshDelayMax == Seconds(10 * 60)
discoveryRefreshDelayMin == Seconds(1)
connectTimeoutMax == Seconds(30)
connectTimeoutMin == [seconds |-> 0, nanos |-> NanosPerMillisecond]
drainTimeMax == Seconds(60 * 60)
parentShutdownTimeMax == Seconds(60 * 60)

\* ValidateDurationRange with both ends of the window excluded
ValidateDurationRangeExclusive(dur, min, max) ==
  IF ~DurationLess(dur, max) \/ ~DurationLess(min, dur)
  THEN Err("time must be within the window")
  ELSE Nil

ValidateDurationRange(dur, min, max) ==
  IF DurationLess(max, dur) \/ DurationLess(dur, min)
  THEN Err("time must be within the window")
  ELSE Nil

ValidateRefreshDelay(refresh) ==
  LET err == ValidateDuration(refresh)
  IN IF ~IsNil(err) THEN err
     ELSE ValidateDurationRange(refresh, discoveryRefreshDelayMin, discoveryRefreshDelayMax)

ValidateConnectTimeout(timeout) ==
  LET err == ValidateDuration(timeout)
  IN IF ~IsNil(err) THEN err
     ELSE ValidateDurationRange(timeout, connectTimeoutMin, connectTimeoutMax)

\* multierror.Prefix(err, prefix): every failure of err becomes
\* fmt.Errorf("%s %s", prefix, e); a nil err stays nil
Prefix(err, prefix) ==
  [tag |-> err.tag,
   errors |-> [i \in 1..Len(err.errors) |-> prefix \o " " \o err.errors[i]]]

\* ValidateParentAndDrain that accepts a parent shutdown time equal to the
\* drain time
ValidateParentAndDrainNotLess(drainTime, parentShutdown) ==
  LET d == ValidateDuration(drainTime)
      p == ValidateDuration(parentShutdown)
  IN IF ~IsNil(d) \/ ~IsNil(p) THEN multierrorAppend(Nil, <<d, p>>)
     ELSE IF DurationLess(parentShutdown, drainTime)
     THEN Multi(<<"parent shutdown time must be greater than drain time">>)
     ELSE Nil

ValidateParentAndDrain(drainTime, parentShutdown) ==
  LET err1 == ValidateDuration(drainTime)
      e1 == IF ~IsNil(err1)
            THEN multierrorAppend(Nil, <<Prefix(err1, "invalid drain duration:")>>)
            ELSE Nil
      err2 == ValidateDuration(parentShutdown)
      e2 == IF ~IsNil(err2)
            THEN multierrorAppend(e1, <<Prefix(err2, "invalid parent shutdown duration:")>>)
            ELSE e1
  IN IF ~IsNil(e2) THEN e2
     ELSE
       LET drainDuration == drainTime
           parentShutdownDuration == parentShutdown
           e3 == IF NotSecondMultiple(drainDuration)
                 THEN multierrorAppend(e2, <<Err("drain time only supports durations to seconds precision")>>)
                 ELSE e2
           e4 == IF NotSecondMultiple(parentShutdownDuration)
                 THEN multierrorAppend(e3, <<Err("parent shutdown time only supports durations to seconds precision")>>)
                 ELSE e3
           e5 == IF ~DurationLess(drainDuration, parentShutdownDuration)
                 THEN multierrorAppend(e4, <<Err("parent shutdown time must be greater than drain time")>>)
                 ELSE e4
           e6 == IF DurationLess(drainTimeMax, drainDuration)
                 THEN multierrorAppend(e5, <<Err("drain time must be within its maximum")>>)
                 ELSE e5
       IN IF DurationLess(parentShutdownTimeMax, parentShutdownDuration)
          THEN multierrorAppend(e6, <<Err("parent shutdown time must be within its maximum")>>)
          ELSE e6

-----------------------------------------------------------------------------
(* Mixer attributes *)

\* the failures one attribute adds to errs; the case of the type switch is
\* value.type
mixerAttribute(errs, value) ==
  CASE value.type = "string" ->
         (IF value.stringValue = ""
          THEN multierrorAppend(errs, <<Err("string attribute should not be empty")>>)
          ELSE errs)
    [] value.type = "duration" ->
         LET e1 == IF value.durationValue = NilPtr
                   THEN multierrorAppend(errs, <<Err("duration attribute should not be nil")>>)
                   ELSE errs
             err == ValidateGogoDuration(value.durationValue)
         IN IF err = Panic THEN Panic
            ELSE IF ~IsNil(err) THEN multierrorAppend(e1, <<err>>)
            ELSE e1
    [] value.type = "bytes" ->
         (IF value.bytesLen = 0
          THEN multierrorAppend(errs, <<Err("bytes attribute should not be empty")>>)
          ELSE errs)
    [] value.type = "timestamp" ->
         LET e1 == IF value.timestampValue = "nil"
                   THEN multierrorAppend(errs, <<Err("timestamp attribute should not be nil")>>)
                   ELSE errs
         IN IF value.timestampValue # "valid"
            THEN multierrorAppend(e1, <<Err("timestamp does not decode")>>)
            ELSE e1
    [] value.type = "stringmap" ->
         (IF value.stringMapValue \in {"nil", "nilEntries"}
          THEN multierrorAppend(errs, <<Err("stringmap attribute should not be nil")>>)
          ELSE errs)
    [] OTHER -> errs

\* the loop of ValidateMixerAttributes over the keys not yet visited
RECURSIVE mixerAttributes(_, _, _)
mixerAttributes(errs, attributes, keys) ==
  IF keys = <<>> THEN errs
  ELSE LET e == mixerAttribute(errs, attributes[Head(keys)])
       IN IF e = Panic THEN Panic
          ELSE mixerAttributes(e, attributes, Tail(keys))

ValidateMixerAttributes(msg, ord) ==
  IF msg.kind # "Attributes" THEN Err("cannot case to attributes")
  ELSE IF Cardinality(DOMAIN msg.attributes) = 0
  THEN Err("list of attributes is nil/empty")
  ELSE mixerAttributes(Nil, msg.attributes, KeysInOrder(msg.attributes, ord))

-----------------------------------------------------------------------------
(* RBAC config *)

\* ValidateRbacConfig without the failure of the type assertion
ValidateRbacConfigUnchecked(msg) ==
  IF msg.kind = "RbacConfig" /\ msg.mode \in {"ON_WITH_EXCLUSION", "ON_WITH_INCLUSION"}
  THEN Err("rbac mode not implemented, currently only supports ON/OFF")
  ELSE Nil

ValidateRbacConfig(msg) ==
  IF msg.kind # "RbacConfig" THEN Err("cannot cast to RbacConfig")
  ELSE IF msg.mode \in {"ON_WITH_EXCLUSION", "ON_WITH_INCLUSION"}
  THEN Err("rbac mode not implemented, currently only supports ON/OFF")
  ELSE Nil

-----------------------------------------------------------------------------
(* Authentication policy *)

\* the reserved name of the default policy
DefaultAuthenticationPolicyName == "default"

\* ParseJwksURI: whether the URI is rejected; the URIs of the inputs are
\* one well-formed URI and one without a scheme
ParseJwksURIFails(uri) == uri # "https://a/jwks"

validateSubsetName(name) ==
  IF Len(name) = 0 THEN Err("subset name cannot be empty")
  ELSE IF ~IsDNS1123Label(name) THEN Err("subnet name is invalid")
  ELSE Nil

validateAuthNPortSelector(selector) ==
  IF selector = NilPtr THEN Nil
  ELSE IF selector.name = <<>> /\ selector.number = 0
  THEN appendErrors(validateSubsetName(selector.name), <<ValidatePort(selector.number)>>)
  ELSE IF selector.number # 0 THEN ValidatePort(selector.number)
  ELSE validateSubsetName(selector.name)

\* the loop of validateAuthNPolicyTarget over the ports not yet visited
RECURSIVE authNTargetPorts(_, _)
authNTargetPorts(errs, ports) ==
  IF ports = <<>> THEN errs
  ELSE authNTargetPorts(appendErrors(errs, <<validateAuthNPortSelector(Head(ports))>>),
                        Tail(ports))

validateAuthNPolicyTarget(target) ==
  IF target = NilPtr THEN Nil
  ELSE authNTargetPorts(
         IF ~IsDNS1123Label(target.name)
         THEN multierrorAppend(Nil, <<Err("target name must be a valid label")>>)
         ELSE Nil,
         target.ports)

\* one failure with message m for every empty string of strs, added to errs
RECURSIVE nonEmptyStrings(_, _, _)
nonEmptyStrings(errs, strs, m) ==
  IF strs = <<>> THEN errs
  ELSE nonEmptyStrings(
         IF Head(strs) = "" THEN multierrorAppend(errs, <<Err(m)>>) ELSE errs,
         Tail(strs), m)

validateJwt(jwt) ==
  IF jwt = NilPtr THEN Nil
  ELSE
    LET e1 == IF jwt.issuer = ""
              THEN multierrorAppend(Nil, <<Err("issuer must be set")>>) ELSE Nil
        e2 == nonEmptyStrings(e1, jwt.audiences, "audience must be non-empty string")
        e3 == IF jwt.jwksUri # "" /\ ParseJwksURIFails(jwt.jwksUri)
              THEN multierrorAppend(e2, <<Err("cannot parse jwks uri")>>) ELSE e2
        e4 == nonEmptyStrings(e3, jwt.jwtHeaders, "location header must be non-empty string")
    IN nonEmptyStrings(e4, jwt.jwtParams, "location query must be non-empty string")

\* the loop of ValidateAuthenticationPolicy over the targets
RECURSIVE authNTargets(_, _)
authNTargets(errs, targets) ==
  IF targets = <<>> THEN errs
  ELSE authNTargets(appendErrors(errs, <<validateAuthNPolicyTarget(Head(targets))>>),
                    Tail(targets))

\* the loop of ValidateAuthenticationPolicy over the peer methods; the
\* result is the errors and the issuers seen
RECURSIVE authNPeers(_, _, _)
authNPeers(errs, jwtIssuers, peers) ==
  IF peers = <<>> THEN [errs |-> errs, jwtIssuers |-> jwtIssuers]
  ELSE
    LET jwt == Head(peers).jwt
    IN IF jwt = NilPtr THEN authNPeers(errs, jwtIssuers, Tail(peers))
       ELSE
         LET e1 == IF jwt.issuer \in jwtIssuers
                   THEN appendErrors(errs, <<Err("jwt with issuer already defined")>>)
                   ELSE errs
         IN authNPeers(appendErrors(e1, <<validateJwt(jwt)>>),
                       jwtIssuers \cup {jwt.issuer}, Tail(peers))

\* the loop of ValidateAuthenticationPolicy over the origin methods;
\* method.Jwt.Issuer dereferences the JWT of the method, which panics on an
\* unset JWT
RECURSIVE authNOrigins(_, _, _)
authNOrigins(errs, jwtIssuers, origins) ==
  IF origins = <<>> THEN errs
  ELSE
    LET jwt == Head(origins).jwt
    IN IF jwt = NilPtr THEN Panic
       ELSE
         LET e1 == IF jwt.issuer \in jwtIssuers
                   THEN appendErrors(errs, <<Err("jwt with issuer already defined")>>)
                   ELSE errs
         IN authNOrigins(appendErrors(e1, <<validateJwt(jwt)>>),
                         jwtIssuers \cup {jwt.issuer}, Tail(origins))

ValidateAuthenticationPolicy(name, namespace, msg) ==
  IF msg.kind # "Policy" THEN Err("cannot cast to AuthenticationPolicy")
  ELSE
    LET clusterScoped == namespace = ""
        in == msg
        scoped ==
          IF ~clusterScoped THEN
            LET e1 == IF Len(in.targets) = 0 /\ name # DefaultAuthenticationPolicyName
                      THEN appendErrors(Nil, <<Err("authentication policy with no target rules must be named default")>>)
                      ELSE Nil
                e2 == IF Len(in.targets) > 0 /\ name = DefaultAuthenticationPolicyName
                      THEN appendErrors(e1, <<Err("authentication policy with the default name must not have any target rules")>>)
                      ELSE e1
            IN authNTargets(e2, in.targets)
          ELSE
            LET e1 == IF name # DefaultAuthenticationPolicyName
                      THEN appendErrors(Nil, <<Err("cluster-scoped authentication policy name must be default")>>)
                      ELSE Nil
            IN IF Len(in.targets) > 0
               THEN appendErrors(e1, <<Err("cluster-scoped authentication policy must not have targets")>>)
               ELSE e1
        peers == authNPeers(scoped, {}, in.peers)
    IN authNOrigins(peers.errs, peers.jwtIssuers, in.origins)

-----------------------------------------------------------------------------
(* Integers wider than the checker's: sums of int32 weights *)

\* an integer v is held as hi * Limb + lo with 0 <= lo < Limb, so that sums
\* of int32 values are exact where Go adds them in an int of 64 bits
Limb == 65536

Wide(v) == [hi |-> v \div Limb, lo |-> v % Limb]

WideAdd(a, b) ==
  [hi |-> a.hi + b.hi + ((a.lo + b.lo) \div Limb), lo |-> (a.lo + b.lo) % Limb]

\* a > b
WideGreater(a, b) == a.hi > b.hi \/ (a.hi = b.hi /\ a.lo > b.lo)

\* the value kept in an int32: the low 32 bits, two's complement
WrapInt32(a) ==
  [hi |-> ((a.hi + (Limb \div 2)) % Limb) - (Limb \div 2), lo |-> a.lo]

-----------------------------------------------------------------------------
(* Destination weights of the legacy route rule *)

\* the loop of ValidateWeights: sum = sum + int(destWeight.Weight)
RECURSIVE SumWeights(_)
SumWeights(routes) ==
  IF routes = <<>> THEN Wide(0)
  ELSE WideAdd(Wide(Head(routes).weight), SumWeights(Tail(routes)))

\* ValidateWeights that takes the weight of a single destination to be 100,
\* whatever its value
ValidateWeightsSingleAssumed(routes) ==
  IF Len(routes) = 1 THEN Nil
  ELSE IF SumWeights(routes) # Wide(100)
  THEN Multi(<<"route weights must total 100">>)
  ELSE Nil

\* ValidateWeights that accepts every total up to 100
ValidateWeightsAtMost(routes) ==
  IF Len(routes) = 1 /\ SumWeights(routes) = Wide(0) THEN Nil
  ELSE IF WideGreater(SumWeights(routes), Wide(100))
  THEN Multi(<<"route weights must total 100">>)
  ELSE Nil

ValidateWeights(routes) ==
  LET sum == SumWeights(routes)
  IN IF Len(routes) = 1 /\ sum = Wide(0) THEN Nil
     ELSE IF sum # Wide(100)
     THEN Multi(<<"route weights must total 100">>)
     ELSE Nil

-----------------------------------------------------------------------------
(* Legacy route rule: service references, match conditions, weights *)

\* the *multierror.Error after `if err != nil { errs = multierror.Append(errs, err) }`
AppendIfError(errs, err) ==
  IF ~IsNil(err) THEN multierrorAppend(errs, <<err>>) ELSE errs

\* the *multierror.Error after `if cond { errs = multierror.Append(errs, errors.New(m)) }`
AppendIf(errs, cond, m) ==
  IF cond THEN multierrorAppend(errs, <<Err(m)>>) ELSE errs

\* the *multierror.Error after
\* `if err := f(); err != nil { errs = multierror.Append(errs, multierror.Prefix(err, prefix)) }`
AppendPrefixed(errs, err, prefix) ==
  IF ~IsNil(err) THEN multierrorAppend(errs, <<Prefix(err, prefix)>>) ELSE errs

\* the error of a check `if cond { errs = multierror.Append(errs, errors.New(m)) }`
\* taken by itself: nil when the check passes
Check(cond, m) == IF cond THEN Err(m) ELSE Nil

\* the *multierror.Error of a function that starts with a nil errs and hands
\* the error of each of its checks that is not nil, in the order of the
\* checks, to errs = multierror.Append(errs, err): nil when no check
\* failed, else the failures of the failed checks, flattened, in order
AppendAll(checks) ==
  IF \A i \in 1..Len(checks) : IsNil(checks[i]) THEN Nil
  ELSE multierrorAppend(Nil, checks)

ValidateIstioService(svc, ord) ==
  AppendAll(<<
    IF svc.name = <<>> /\ svc.service = <<>>
    THEN Err("name or service is mandatory for a service reference")
    ELSE IF svc.service # <<>> /\ svc.name # <<>>
    THEN Err("specify either name or service, not both")
    ELSE IF svc.service # <<>>
    THEN AppendAll(<<ValidateEgressRuleService(svc.service),
                     Check(svc.namespace # <<>>,
                           "namespace is not valid when service is provided"),
                     Check(svc.domain # <<>>,
                           "domain is not valid when service is provided")>>)
    ELSE IF svc.name # <<>>
    THEN Check(~IsDNS1123Label(svc.name), "name must be a valid label")
    ELSE Nil,
    Check(svc.namespace # <<>> /\ ~IsDNS1123Label(svc.namespace),
          "namespace must be a valid label"),
    IF svc.domain # <<>> THEN ValidateFQDN(svc.domain) ELSE Nil,
    LabelsValidate(svc.labels, ord)>>)

\* strings.ToLower, on the letters of the alphabet
LowerOf(c) ==
  CASE c = "A" -> "a" [] c = "B" -> "b" [] c = "C" -> "c" [] c = "D" -> "d"
    [] c = "E" -> "e" [] c = "F" -> "f" [] c = "G" -> "g" [] c = "H" -> "h"
    [] c = "I" -> "i" [] c = "J" -> "j" [] c = "K" -> "k" [] c = "L" -> "l"
    [] c = "M" -> "m" [] c = "N" -> "n" [] c = "O" -> "o" [] c = "P" -> "p"
    [] c = "Q" -> "q" [] c = "R" -> "r" [] c = "S" -> "s" [] c = "T" -> "t"
    [] c = "U" -> "u" [] c = "V" -> "v" [] c = "W" -> "w" [] c = "X" -> "x"
    [] c = "Y" -> "y" [] c = "Z" -> "z" [] OTHER -> c

ToLower(s) == [i \in 1..Len(s) |-> LowerOf(s[i])]

ValidateHTTPHeaderName(name) ==
  IF name = <<>> THEN Err("header name cannot be empty")
  ELSE IF ToLower(name) # name THEN Err("must be in lower case")
  ELSE Nil

\* the case of the type switch is match.type
ValidateStringMatch(match) ==
  IF match.type \in {"exact", "prefix", "regex"} THEN Nil
  ELSE Err("unrecognized string match")

ValidateSubnet(subnet) == ValidateIPv4Subnet(subnet)

\* one of the two loops of ValidateL4MatchAttributes
RECURSIVE l4Subnets(_, _)
l4Subnets(errs, subnets) ==
  IF subnets = <<>> THEN errs
  ELSE l4Subnets(AppendIfError(errs, ValidateSubnet(Head(subnets))), Tail(subnets))

ValidateL4MatchAttributes(ma) ==
  l4Subnets(l4Subnets(Nil, ma.sourceSubnet), ma.destinationSubnet)

\* the name of the special header that carries the request path
HeaderURI == <<"u", "r", "i">>

\* the loop of ValidateMatchCondition over the request headers not yet
\* visited
RECURSIVE matchHeaders(_, _, _)
matchHeaders(errs, headers, names) ==
  IF names = <<>> THEN errs
  ELSE
    LET name == Head(names)
        value == headers[name]
        e1 == AppendPrefixed(errs, ValidateHTTPHeaderName(name), "header name invalid:")
        e2 == AppendPrefixed(e1, ValidateStringMatch(value), "header value invalid:")
        e3 == AppendIf(e2,
                /\ name = HeaderURI
                /\ value.type \in {"exact", "prefix", "regex"}
                /\ value.value = <<>>,
                "header value for uri must be non-empty")
    IN matchHeaders(e3, headers, Tail(names))

\* the headers of the request of the match condition, none when there is no
\* request
requestHeaders(mc) == IF mc.request # NilPtr THEN mc.request.headers ELSE <<>>

ValidateMatchCondition(mc, ord, ordH) ==
  AppendAll(<<
    IF mc.source # NilPtr THEN ValidateIstioService(mc.source, ord) ELSE Nil,
    IF mc.tcp # NilPtr THEN ValidateL4MatchAttributes(mc.tcp) ELSE Nil,
    IF mc.udp # NilPtr
    THEN AppendAll(<<ValidateL4MatchAttributes(mc.udp),
                     Err("UDP protocol not supported yet")>>)
    ELSE Nil,
    matchHeaders(Nil, requestHeaders(mc), KeysInOrder(requestHeaders(mc), ordH))>>)

ValidatePercent(val) ==
  IF val < 0 \/ val > 100 THEN Err("percentage is not in range 0..100") ELSE Nil

\* percent is a float32; the inputs carry whole numbers
ValidateFloatPercent(val) ==
  IF val < 0 \/ val > 100 THEN Err("percentage is not in range 0..100") ELSE Nil

ValidateDestinationWeight(dw, ord) ==
  AppendPrefixed(AppendIfError(Nil, LabelsValidate(dw.labels, ord)),
                 ValidatePercent(dw.weight), "weight invalid:")

-----------------------------------------------------------------------------
(* Legacy route rule: timeouts, retries and faults *)

\* GetSimpleTimeout is nil unless the policy is a simple timeout
ValidateHTTPTimeout(timeout) ==
  IF timeout.simpleTimeout # NilPtr
  THEN AppendPrefixed(Nil, ValidateDuration(timeout.simpleTimeout.timeout),
                      "httpTimeout invalid:")
  ELSE Nil

ValidateHTTPRetries(retry) ==
  IF retry.simpleRetry # NilPtr
  THEN AppendPrefixed(AppendIf(Nil, retry.simpleRetry.attempts < 0,
                               "attempts must be in range [0..]"),
                      ValidateDuration(retry.simpleRetry.perTryTimeout),
                      "perTryTimeout invalid:")
  ELSE Nil

\* GetFixedDelay and GetExponentialDelay are nil unless the delay is of
\* that type
ValidateDelay(delay) ==
  AppendAll(<<
    Prefix(ValidateFloatPercent(delay.percent), "percent invalid:"),
    Prefix(ValidateDuration(delay.fixedDelay), "fixedDelay invalid:"),
    IF delay.exponentialDelay # NilPtr
    THEN AppendAll(<<Prefix(ValidateDuration(delay.exponentialDelay),
                            "exponentialDelay invalid:"),
                     Err("exponentialDelay not supported yet")>>)
    ELSE Nil>>)

ValidateAbortHTTPStatus(httpStatus) ==
  AppendIf(Nil, httpStatus < 0 \/ httpStatus > 600, "invalid abort http status")

\* the case of the type switch is abort.errorType
ValidateAbort(abort) ==
  LET e1 == AppendPrefixed(Nil, ValidateFloatPercent(abort.percent), "percent invalid:")
  IN CASE abort.errorType = "grpcStatus" ->
            multierrorAppend(e1, <<Err("gRPC fault injection not supported yet")>>)
       [] abort.errorType = "http2Error" -> e1
       [] abort.errorType = "httpStatus" ->
            AppendIfError(e1, ValidateAbortHTTPStatus(abort.httpStatus))
       [] OTHER -> e1

ValidateHTTPFault(fault) ==
  LET e1 == AppendIfError(Nil, IF fault.delay # NilPtr
                               THEN ValidateDelay(fault.delay) ELSE Nil)
  IN AppendIfError(e1, IF fault.abort # NilPtr THEN ValidateAbort(fault.abort) ELSE Nil)

ValidateTerminate(terminate) ==
  AppendPrefixed(Nil, ValidateFloatPercent(terminate.percent), "terminate percent invalid:")

ValidateThrottle(throttle) ==
  LET e1 == AppendPrefixed(Nil, ValidateFloatPercent(throttle.percent),
                           "throttle percent invalid:")
      e2 == AppendIf(e1, throttle.downstreamLimitBps < 0, "downstreamLimitBps invalid")
      e3 == AppendIf(e2, throttle.upstreamLimitBps < 0, "upstreamLimitBps invalid")
      e4 == AppendIf(e3, ~IsNil(ValidateDuration(throttle.throttleAfterPeriod)),
                     "throttleAfterPeriod invalid")
  IN AppendIf(e4, throttle.throttleAfterBytes < 0, "throttleAfterBytes invalid")

ValidateL4Fault(fault) ==
  AppendAll(<<
    IF fault.terminate # NilPtr
    THEN AppendAll(<<ValidateTerminate(fault.terminate),
                     Err("the terminate fault not supported yet")>>)
    ELSE Nil,
    IF fault.throttle # NilPtr THEN ValidateThrottle(fault.throttle) ELSE Nil>>)

-----------------------------------------------------------------------------
(* Legacy route rule *)

\* a slice that is not nil, of the elements elems; the nil slice is NilPtr
Slice(elems) == [nil |-> FALSE, elems |-> elems]

\* a nil slice has length 0
SliceLen(s) == IF s = NilPtr THEN 0 ELSE Len(s.elems)

\* the methods of net/http the table supportedMethods holds
supportedMethods ==
  {"GET", "HEAD", "POST", "PUT", "PATCH", "DELETE", "CONNECT", "OPTIONS", "TRACE"}

\* the loop of ValidateRouteRule over the destination weights not yet visited
RECURSIVE routeDestinationWeights(_, _, _)
routeDestinationWeights(errs, route, ord) ==
  IF route = <<>> THEN errs
  ELSE routeDestinationWeights(
         AppendIfError(errs, ValidateDestinationWeight(Head(route), ord)),
         Tail(route), ord)

\* the loop of ValidateRouteRule over the appended headers not yet visited
RECURSIVE routeAppendHeaders(_, _, _)
routeAppendHeaders(errs, headers, names) ==
  IF names = <<>> THEN errs
  ELSE LET name == Head(names)
           e1 == AppendIfError(errs, ValidateHTTPHeaderName(name))
           e2 == AppendIf(e1, headers[name] = <<>>,
                          "appended header must have a non-empty value")
       IN routeAppendHeaders(e2, headers, Tail(names))

\* a loop of ValidateRouteRule over header names of the CORS policy
RECURSIVE routeHeaderNames(_, _)
routeHeaderNames(errs, names) ==
  IF names = <<>> THEN errs
  ELSE routeHeaderNames(AppendIfError(errs, ValidateHTTPHeaderName(Head(names))),
                        Tail(names))

\* the loop of ValidateRouteRule over the allowed methods of the CORS policy
RECURSIVE routeAllowMethods(_, _)
routeAllowMethods(errs, methods) ==
  IF methods = <<>> THEN errs
  ELSE routeAllowMethods(
         AppendIf(errs, Head(methods) \notin supportedMethods,
                  "is not a supported HTTP method"),
         Tail(methods))

\* the block of ValidateRouteRule on the CORS policy
routeCorsPolicy(errs, corsPolicy) ==
  IF corsPolicy = NilPtr THEN errs
  ELSE
    LET e1 == IF corsPolicy.maxAge # NilPtr
              THEN AppendIf(AppendIfError(errs, ValidateDuration(corsPolicy.maxAge)),
                            corsPolicy.maxAge.nanos > 0,
                            "max_age duration is accurate only to seconds precision")
              ELSE errs
        e2 == routeHeaderNames(e1, corsPolicy.allowHeaders)
        e3 == routeHeaderNames(e2, corsPolicy.exposeHeaders)
    IN routeAllowMethods(e3, corsPolicy.allowMethods)

\* the block on a redirect without the failure for a fault next to it
routeRedirectFaultAllowed(errs, value) ==
  IF value.redirect = NilPtr THEN errs
  ELSE
    LET e1 == AppendIf(errs, SliceLen(value.route) > 0,
                       "rule cannot contain both route and redirect")
        e3 == AppendIf(e1, value.redirect.authority = <<>> /\ value.redirect.uri = <<>>,
                       "redirect must specify path, host, or both")
    IN AppendIf(e3, value.websocketUpgrade,
                "WebSocket upgrade is not allowed on redirect rules")

\* the block of ValidateRouteRule on a redirect
routeRedirect(errs, value) ==
  IF value.redirect = NilPtr THEN errs
  ELSE
    LET e1 == AppendIf(errs, SliceLen(value.route) > 0,
                       "rule cannot contain both route and redirect")
        e2 == AppendIf(e1, value.httpFault # NilPtr,
                       "rule cannot contain both fault and redirect")
        e3 == AppendIf(e2, value.redirect.authority = <<>> /\ value.redirect.uri = <<>>,
                       "redirect must specify path, host, or both")
    IN AppendIf(e3, value.websocketUpgrade,
                "WebSocket upgrade is not allowed on redirect rules")

\* the block of ValidateRouteRule on the route list
routeWeights(errs, route, ord) ==
  IF route # NilPtr
  THEN AppendIfError(routeDestinationWeights(errs, route.elems, ord),
                     ValidateWeights(route.elems))
  ELSE errs

\* the checks of ValidateRouteRule in the order of the source; every one
\* of them hands its failures to errs = multierror.Append(errs, err)
ValidateRouteRule(msg, ord, ordH) ==
  IF msg.kind # "RouteRule" THEN Err("cannot cast to routing rule")
  ELSE
    LET value == msg
    IN AppendAll(<<
         IF value.destination = NilPtr
         THEN Err("route rule must have a destination service")
         ELSE AppendAll(<<ValidateIstioService(value.destination, ord),
                          Check(Cardinality(DOMAIN value.destination.labels) > 0,
                                "route rule destination labels must be empty")>>),
         IF value.match # NilPtr
         THEN ValidateMatchCondition(value.match, ord, ordH) ELSE Nil,
         Check(/\ value.rewrite # NilPtr
               /\ value.rewrite.uri = <<>>
               /\ value.rewrite.authority = <<>>,
               "rewrite must specify path, host, or both"),
         routeRedirect(Nil, value),
         Check(value.redirect # NilPtr /\ value.rewrite # NilPtr,
               "rule cannot contain both rewrite and redirect"),
         routeWeights(Nil, value.route, ord),
         IF value.mirror # NilPtr THEN ValidateIstioService(value.mirror, ord) ELSE Nil,
         routeAppendHeaders(Nil, value.appendHeaders,
                            KeysInOrder(value.appendHeaders, ordH)),
         routeCorsPolicy(Nil, value.corsPolicy),
         IF value.httpReqTimeout # NilPtr
         THEN ValidateHTTPTimeout(value.httpReqTimeout) ELSE Nil,
         IF value.httpReqRetries # NilPtr
         THEN ValidateHTTPRetries(value.httpReqRetries) ELSE Nil,
         IF value.httpFault # NilPtr THEN ValidateHTTPFault(value.httpFault) ELSE Nil,
         IF value.l4Fault # NilPtr
         THEN AppendAll(<<ValidateL4Fault(value.l4Fault),
                          Err("L4 faults are not implemented")>>)
         ELSE Nil>>)

-----------------------------------------------------------------------------
(* Virtual service *)

validateHost(host) ==
  LET err == ValidateWildcardDomain(host)
  IN IF ~IsNil(err)
     THEN LET err2 == ValidateIPv4Subnet(host)
          IN IF ~IsNil(err2) THEN appendErrors(err, <<err2>>) ELSE Nil
     ELSE Nil

validatePortSelector(selector) ==
  IF selector = NilPtr THEN Nil
  ELSE IF selector.name = <<>> /\ selector.number = 0
  THEN appendErrors(validateSubsetName(selector.name), <<ValidatePort(selector.number)>>)
  ELSE IF selector.number # 0 THEN ValidatePort(selector.number)
  ELSE validateSubsetName(selector.name)

validateDestination(destination) ==
  IF destination = NilPtr THEN Nil
  ELSE
    LET e1 == appendErrors(Nil, <<validateHost(destination.host)>>)
        e2 == appendErrors(e1, <<IF destination.subset # <<>>
                                 THEN validateSubsetName(destination.subset) ELSE Nil>>)
    IN appendErrors(e2, <<IF destination.port # NilPtr
                          THEN validatePortSelector(destination.port) ELSE Nil>>)

validateHTTPMethod(method) ==
  IF method \notin supportedMethods THEN Err("is not a supported HTTP method") ELSE Nil

\* a loop of validateCORSPolicy over header names
RECURSIVE corsHeaderNames(_, _)
corsHeaderNames(errs, names) ==
  IF names = <<>> THEN errs
  ELSE corsHeaderNames(appendErrors(errs, <<ValidateHTTPHeaderName(Head(names))>>),
                       Tail(names))

\* the loop of validateCORSPolicy over the allowed methods
RECURSIVE corsAllowMethods(_, _)
corsAllowMethods(errs, methods) ==
  IF methods = <<>> THEN errs
  ELSE corsAllowMethods(appendErrors(errs, <<validateHTTPMethod(Head(methods))>>),
                        Tail(methods))

\* the block of validateCORSPolicy on the maximal age
corsMaxAge(errs, maxAge) ==
  IF maxAge # NilPtr
  THEN AppendIf(appendErrors(errs, <<ValidateDurationGogo(maxAge)>>), maxAge.nanos > 0,
                "max_age duration is accurate only to seconds precision")
  ELSE errs

validateCORSPolicy(policy) ==
  IF policy = NilPtr THEN Nil
  ELSE
    LET e1 == corsAllowMethods(Nil, policy.allowMethods)
        e2 == corsHeaderNames(e1, policy.allowHeaders)
        e3 == corsHeaderNames(e2, policy.exposeHeaders)
    IN corsMaxAge(e3, policy.maxAge)

validateHTTPStatus(status) ==
  IF status < 0 \/ status > 600 THEN Err("HTTP status is not in range 0-600") ELSE Nil

\* the case of the type switch is abort.errorType
validateHTTPFaultInjectionAbort(abort) ==
  IF abort = NilPtr THEN Nil
  ELSE
    LET e1 == appendErrors(Nil, <<ValidatePercent(abort.percent)>>)
    IN CASE abort.errorType = "grpcStatus" ->
              multierrorAppend(e1, <<Err("gRPC abort fault injection not supported yet")>>)
         [] abort.errorType = "http2Error" ->
              multierrorAppend(e1, <<Err("HTTP/2 abort fault injection not supported yet")>>)
         [] abort.errorType = "httpStatus" ->
              appendErrors(e1, <<validateHTTPStatus(abort.httpStatus)>>)
         [] OTHER -> e1

\* the case of the type switch is delay.httpDelayType
validateHTTPFaultInjectionDelay(delay) ==
  IF delay = NilPtr THEN Nil
  ELSE
    LET e1 == appendErrors(Nil, <<ValidatePercent(delay.percent)>>)
    IN IF delay.httpDelayType = "fixedDelay"
       THEN appendErrors(e1, <<ValidateDurationGogo(delay.fixedDelay)>>)
       ELSE IF delay.httpDelayType = "exponentialDelay"
       THEN multierrorAppend(
              appendErrors(e1, <<ValidateDurationGogo(delay.exponentialDelay)>>),
              <<Err("exponentialDelay not supported yet")>>)
       ELSE e1

validateHTTPFaultInjection(fault) ==
  IF fault = NilPtr THEN Nil
  ELSE
    LET e1 == AppendIf(Nil, fault.abort = NilPtr /\ fault.delay = NilPtr,
                       "HTTP fault injection must have an abort and/or a delay")
        e2 == appendErrors(e1, <<validateHTTPFaultInjectionAbort(fault.abort)>>)
    IN appendErrors(e2, <<validateHTTPFaultInjectionDelay(fault.delay)>>)

validateHTTPRetry(retries) ==
  IF retries = NilPtr THEN Nil
  ELSE appendErrors(AppendIf(Nil, retries.attempts <= 0, "attempts must be positive"),
                    <<IF retries.perTryTimeout # NilPtr
                      THEN ValidateDurationGogo(retries.perTryTimeout) ELSE Nil>>)

validateHTTPRedirect(redirect) ==
  IF redirect # NilPtr /\ redirect.uri = <<>> /\ redirect.authority = <<>>
  THEN Err("redirect must specify URI, authority, or both")
  ELSE Nil

validateHTTPRewrite(rewrite) ==
  IF rewrite # NilPtr /\ rewrite.uri = <<>> /\ rewrite.authority = <<>>
  THEN Err("rewrite must specify URI, authority, or both")
  ELSE Nil

\* the conflict checks at the head of validateHTTPRoute, without the
\* failure for a route that has neither a redirect nor a destination
httpRouteConflictsRouteOptional(http) ==
  IF http.redirect # NilPtr
  THEN
    LET e1 == appendErrors(Nil, <<IF Len(http.route) > 0
                THEN Err("HTTP route cannot contain both route and redirect") ELSE Nil>>)
        e2 == appendErrors(e1, <<IF http.fault # NilPtr
                THEN Err("HTTP route cannot contain both fault and redirect") ELSE Nil>>)
        e3 == appendErrors(e2, <<IF http.rewrite # NilPtr
                THEN Err("HTTP route rule cannot contain both rewrite and redirect") ELSE Nil>>)
    IN appendErrors(e3, <<IF http.websocketUpgrade
                THEN Err("WebSocket upgrade is not allowed on redirect rules") ELSE Nil>>)
  ELSE Nil

\* the conflict checks at the head of validateHTTPRoute
httpRouteConflicts(http) ==
  IF http.redirect # NilPtr
  THEN
    LET e1 == appendErrors(Nil, <<IF Len(http.route) > 0
                THEN Err("HTTP route cannot contain both route and redirect") ELSE Nil>>)
        e2 == appendErrors(e1, <<IF http.fault # NilPtr
                THEN Err("HTTP route cannot contain both fault and redirect") ELSE Nil>>)
        e3 == appendErrors(e2, <<IF http.rewrite # NilPtr
                THEN Err("HTTP route rule cannot contain both rewrite and redirect") ELSE Nil>>)
    IN appendErrors(e3, <<IF http.websocketUpgrade
                THEN Err("WebSocket upgrade is not allowed on redirect rules") ELSE Nil>>)
  ELSE IF Len(http.route) = 0
  THEN appendErrors(Nil, <<Err("HTTP route or redirect is required")>>)
  ELSE Nil

\* a loop of validateHTTPRoute over header names that are the keys of a map
RECURSIVE httpHeaderNames(_, _)
httpHeaderNames(errs, names) ==
  IF names = <<>> THEN errs
  ELSE httpHeaderNames(appendErrors(errs, <<ValidateHTTPHeaderName(Head(names))>>),
                       Tail(names))

\* the loop of validateHTTPRoute over the match requests not yet visited
RECURSIVE httpMatches(_, _, _, _)
httpMatches(errs, matches, ord, ordH) ==
  IF matches = <<>> THEN errs
  ELSE
    LET match == Head(matches)
        e1 == httpHeaderNames(errs, KeysInOrder(match.headers, ordH))
        e2 == appendErrors(e1, <<LabelsValidate(match.sourceLabels, ord)>>)
    IN httpMatches(e2, Tail(matches), ord, ordH)

\* the loop of validateHTTPRoute over the destinations not yet visited;
\* totalWeight is an int32 and wraps
RECURSIVE httpRouteDestinations(_, _, _)
httpRouteDestinations(errs, totalWeight, route) ==
  IF route = <<>> THEN [errs |-> errs, totalWeight |-> totalWeight]
  ELSE
    LET r == Head(route)
        e1 == AppendIf(errs, r.destination = NilPtr, "destination is required")
        e2 == appendErrors(e1, <<validateDestination(r.destination)>>)
        e3 == appendErrors(e2, <<ValidatePercent(r.weight)>>)
    IN httpRouteDestinations(e3, WrapInt32(WideAdd(totalWeight, Wide(r.weight))),
                             Tail(route))

\* the total-weight check of validateHTTPRoute, on the errors and the total
\* weight the loop over the destinations has left
httpTotalWeight(dests, http) ==
  appendErrors(dests.errs,
               <<IF Len(http.route) > 1 /\ WideGreater(dests.totalWeight, Wide(100))
                 THEN Err("total destination weight > 100") ELSE Nil>>)

\* the checks of validateHTTPRoute in the order of the source; every one of
\* them hands its failures to errs = appendErrors(errs, err)
validateHTTPRoute(http, ord, ordH) ==
  LET errs == appendErrors(Nil, <<
                httpRouteConflicts(http),
                httpHeaderNames(Nil, KeysInOrder(http.appendHeaders, ordH)),
                validateCORSPolicy(http.corsPolicy),
                validateHTTPFaultInjection(http.fault),
                httpMatches(Nil, http.match, ord, ordH),
                validateDestination(http.mirror),
                validateHTTPRedirect(http.redirect),
                validateHTTPRetry(http.retries),
                validateHTTPRewrite(http.rewrite)>>)
  IN appendErrors(
       httpTotalWeight(httpRouteDestinations(errs, Wide(0), http.route), http),
       <<IF http.timeout # NilPtr THEN ValidateDurationGogo(http.timeout) ELSE Nil>>)

\* the name of the gateway that stands for the sidecars of the mesh
IstioMeshGateway == <<"m", "e", "s", "h">>

\* strings.HasSuffix(s, suffix)
HasSuffix(s, suffix) ==
  Len(s) >= Len(suffix) /\ SubSeq(s, Len(s) - Len(suffix) + 1, Len(s)) = suffix

\* Hostname.Matches: two names without wildcard match when they are equal;
\* otherwise they match when, the leading `*` cut off, the shorter is a
\* suffix of the longer (*.foo.com and *.com)
HostnameMatches(h, o) ==
  LET hWildcard == Len(h) > 0 /\ h[1] = "*"
      oWildcard == Len(o) > 0 /\ o[1] = "*"
      hs == IF hWildcard THEN Tail(h) ELSE h
      os == IF oWildcard THEN Tail(o) ELSE o
  IN IF ~hWildcard /\ ~oWildcard THEN h = o
     ELSE IF Len(hs) >= Len(os) THEN HasSuffix(hs, os) ELSE HasSuffix(os, hs)

\* the loop of ValidateVirtualService over the gateways not yet visited
RECURSIVE virtualServiceGateways(_, _, _)
virtualServiceGateways(errs, appliesToMesh, gateways) ==
  IF gateways = <<>> THEN [errs |-> errs, appliesToMesh |-> appliesToMesh]
  ELSE
    LET gateway == Head(gateways)
        e1 == IF ~IsDNS1123Label(gateway)
              THEN appendErrors(errs, <<Err("gateway is not a valid DNS1123 label")>>)
              ELSE errs
    IN virtualServiceGateways(e1, appliesToMesh \/ gateway = IstioMeshGateway,
                              Tail(gateways))

\* the loop of ValidateVirtualService over the hosts not yet visited
RECURSIVE virtualServiceHosts(_, _, _, _)
virtualServiceHosts(errs, allHostsValid, appliesToMesh, hosts) ==
  IF hosts = <<>> THEN [errs |-> errs, allHostsValid |-> allHostsValid]
  ELSE
    LET host == Head(hosts)
    IN IF ~IsNil(validateHost(host))
       THEN virtualServiceHosts(appendErrors(errs, <<validateHost(host)>>), FALSE,
                                appliesToMesh, Tail(hosts))
       ELSE IF appliesToMesh /\ host = <<"*">>
       THEN virtualServiceHosts(
              appendErrors(errs, <<Err("wildcard host * is not allowed for virtual services bound to the mesh gateway")>>),
              FALSE, appliesToMesh, Tail(hosts))
       ELSE virtualServiceHosts(errs, allHostsValid, appliesToMesh, Tail(hosts))

\* the inner loop over the hosts j behind host i
RECURSIVE duplicateHostsOf(_, _, _, _)
duplicateHostsOf(errs, hosts, i, j) ==
  IF j > Len(hosts) THEN errs
  ELSE duplicateHostsOf(
         IF HostnameMatches(hosts[i], hosts[j])
         THEN appendErrors(errs, <<Err("duplicate hosts in virtual service")>>)
         ELSE errs,
         hosts, i, j + 1)

\* the outer loop over the hosts i
RECURSIVE duplicateHosts(_, _, _)
duplicateHosts(errs, hosts, i) ==
  IF i > Len(hosts) THEN errs
  ELSE duplicateHosts(duplicateHostsOf(errs, hosts, i, i + 1), hosts, i + 1)

\* the loop of ValidateVirtualService over the HTTP routes not yet visited
RECURSIVE virtualServiceHTTP(_, _, _, _)
virtualServiceHTTP(errs, routes, ord, ordH) ==
  IF routes = <<>> THEN errs
  ELSE virtualServiceHTTP(appendErrors(errs, <<validateHTTPRoute(Head(routes), ord, ordH)>>),
                          Tail(routes), ord, ordH)

\* the check that there are hosts, and the loop over them, on the errors
\* and the flag the loop over the gateways has left
virtualServiceHostList(gw, hosts) ==
  virtualServiceHosts(
    appendErrors(gw.errs, <<IF Len(hosts) = 0
                            THEN Err("virtual service must have at least one host")
                            ELSE Nil>>),
    TRUE, gw.appliesToMesh, hosts)

\* the check for duplicate hosts, on the errors and the flag the loop over
\* the hosts has left
virtualServiceDuplicates(hs, hosts) ==
  IF hs.allHostsValid THEN duplicateHosts(hs.errs, hosts, 1) ELSE hs.errs

ValidateVirtualService(msg, ord, ordH) ==
  IF msg.kind # "VirtualService" THEN Err("cannot cast to virtual service")
  ELSE
    LET virtualService == msg
        gw == virtualServiceGateways(Nil, Len(virtualService.gateways) = 0,
                                     virtualService.gateways)
        hs == virtualServiceHostList(gw, virtualService.hosts)
        e2 == virtualServiceDuplicates(hs, virtualService.hosts)
        e3 == appendErrors(e2, <<IF /\ Len(virtualService.http) = 0
                                    /\ Len(virtualService.tcp) = 0
                                 THEN Err("http or tcp must be provided in virtual service")
                                 ELSE Nil>>)
    IN virtualServiceHTTP(e3, virtualService.http, ord, ordH)

-----------------------------------------------------------------------------
(* HTTP API spec *)

\* ValidateMixerAttributes handed the pointer in.Attributes of an
\* HTTPAPISpec: a nil pointer of the type *mpb.Attributes passes the type
\* assertion and fails the test in == nil
ValidateMixerAttributesOf(attributes, ord) ==
  IF attributes = NilPtr THEN Err("list of attributes is nil/empty")
  ELSE ValidateMixerAttributes(attributes, ord)

\* the failures of one pattern, in the order of the loop body: the
\* attributes handed to ValidateMixerAttributes are in.Attributes, the
\* top-level list; the case of the type switch is pattern.type
httpAPISpecPattern(attributesErr, pattern) ==
  AppendAll(<<
    attributesErr,
    Check(pattern.httpMethod = "", "http_method cannot be empty"),
    Check(pattern.type = "uriTemplate" /\ pattern.value = "", "uri_template cannot be empty"),
    Check(pattern.type = "regex" /\ pattern.value = "", "regex cannot be empty")>>)

\* the failures of one API key; the case of the type switch is key.type
httpAPISpecKey(key) ==
  AppendAll(<<
    Check(key.type = "query" /\ key.value = "", "query cannot be empty"),
    Check(key.type = "header" /\ key.value = "", "header cannot be empty"),
    Check(key.type = "cookie" /\ key.value = "", "cookie cannot be empty")>>)

\* with in.Attributes valid for the whole call, every call of
\* ValidateMixerAttributes(in.Attributes) gives attributesErr
httpAPISpecChecks(in, attributesErr) ==
  AppendAll(
    <<IF in.attributes # NilPtr THEN attributesErr ELSE Nil,
      Check(Len(in.patterns) = 0, "at least one pattern must be specified")>>
    \o [i \in 1..Len(in.patterns) |-> httpAPISpecPattern(attributesErr, in.patterns[i])]
    \o [i \in 1..Len(in.apiKeys) |-> httpAPISpecKey(in.apiKeys[i])])

\* ValidateMixerAttributes panics on a duration attribute without a value;
\* the panic ends the call of ValidateHTTPAPISpec as well, unless
\* in.Attributes is nil and there is no pattern, when it is never called
ValidateHTTPAPISpec(msg, ord) ==
  IF msg.kind # "HTTPAPISpec" THEN Err("cannot case to HTTPAPISpec")
  ELSE
    LET in == msg
        attributesErr == ValidateMixerAttributesOf(in.attributes, ord)
    IN IF attributesErr = Panic /\ (in.attributes # NilPtr \/ Len(in.patterns) > 0)
       THEN Panic
       ELSE httpAPISpecChecks(in, attributesErr)

-----------------------------------------------------------------------------
(* Inputs of the primitive validators *)

\* values of the Go int handed to ValidatePort, on both sides of each bound
PortInputs ==
  {-2147483647, -1, 0, 1, 2, 80, 65534, 65535, 65536, 65537, 2147483647}

\* labels around the length limit: a short head followed by a run of `a`
LongLabels ==
  {h \o Repeat("a", n) : h \in SeqsUpTo({"a", "*", "-"}, 2),
                         n \in (dns1123LabelMaxLength - 2)..dns1123LabelMaxLength}

\* labels with upper-case letters and digits
MixedCaseLabels ==
  {<<"A">>, <<"0">>, <<"A", "0">>, <<"Z", "-", "9">>, <<"-", "A">>,
   <<"0", "-">>, <<"A", "_", "0">>, <<"a", " ", "a">>}

LabelInputs == SeqsUpTo(Alphabet, MaxStrLen) \cup LongLabels \cup MixedCaseLabels

\* labels joined by dots
RECURSIVE JoinDots(_)
JoinDots(labels) ==
  IF Len(labels) = 1 THEN Head(labels)
  ELSE Head(labels) \o <<".">> \o JoinDots(Tail(labels))

\* domains around the limits of 63 characters a label and 255 a name
LongDomains ==
  {JoinDots(<<h \o Repeat("a", n), Repeat("a", 63), Repeat("a", 63), Repeat("a", 63)>>) :
     h \in {<<>>, <<"*">>}, n \in 61..64}
  \cup {Repeat("a", DNSNameMaxLength + 1)}

DomainInputs == SeqsUpTo(Alphabet, MaxStrLen) \cup LongDomains

\* wire durations around the limits the validators test: nil, negative,
\* parts of different sign, nanos of a whole second, below and off the
\* millisecond, and around 1s, 30s, 10m and 1h
DurationInputs ==
  {NilPtr}
  \cup {[seconds |-> s, nanos |-> n] :
          s \in {0}, n \in {-1000000, 0, 500000, 999999, 1000000, 1500000,
                            500000000, 999000000, 1000000000}}
  \cup {[seconds |-> s, nanos |-> n] :
          s \in {1, 30, 600, 3600}, n \in {-1, 0, 1000000, 500000000}}
  \cup {[seconds |-> s, nanos |-> n] :
          s \in {-1, 29, 599, 601, 3599, 3601}, n \in {0}}
  \cup {[seconds |-> -1, nanos |-> 1]}

\* error messages of the outcomes handed to appendErrors
Messages == {"e1", "e2"}

\* the outcomes handed to appendErrors: nil, a plain error, an aggregate
Outcomes ==
  {Nil} \cup {Err(m) : m \in Messages}
        \cup {Multi(ms) : ms \in SeqsUpTo(Messages, MaxMulti) \ {<<>>}}

NoConfig == [kind |-> "none"]

-----------------------------------------------------------------------------
(* The configuration objects handed to the validators *)

\* strings of the inputs
sWild == <<"*">>
sWildDotA == <<"*", ".", "a">>
sWildDashA == <<"*", "-", "a", ".", "a">>
sWildA == <<"*", "a", ".", "a">>
sA == <<"a">>
sC == <<"c">>
sADotA == <<"a", ".", "a">>
sBad == <<"_">>
sIP == <<"1", ".", "1", ".", "1", ".", "1">>
sCIDR == <<"1", ".", "1", ".", "1", ".", "1", "/", "8">>
sIPv6 == <<":", ":", "1">>
sUnix == UnixAddressPrefix \o <<"/", "a">>
sUnixRelative == UnixAddressPrefix \o <<"a">>
sUnixEmpty == UnixAddressPrefix

\* the keys of the maps of the inputs
MapKeys == {sA, sC, sWild}

\* every sequence that lists each element of S once
RECURSIVE Orders(_)
Orders(S) ==
  IF S = {} THEN {<<>>}
  ELSE UNION {{<<x>> \o o : o \in Orders(S \ {x})} : x \in S}

\* the orders in which the run time may visit the keys of a map
KeyOrders == Orders(MapKeys)

EmptyMap == <<>>

\* the map with the single entry k -> v
Entry(k, v) == [x \in {k} |-> v]

\* weights of destination entries: percentages, and values near the ends
\* of int32
WeightInputs == {-2147483647, -50, 0, 30, 40, 50, 60, 100, 150, 2147483647}

\* route lists handed to ValidateWeights; labels are empty
WeightLists ==
  {[i \in 1..Len(ws) |-> [labels |-> EmptyMap, weight |-> ws[i]]] :
     ws \in SeqsUpTo(WeightInputs, MaxRoutes)}

\* the names of the headers of the inputs: valid, upper case, empty
sUpperA == <<"A">>

HeaderKeys == {sA, sUpperA, <<>>}

\* the orders in which the run time may visit the keys of a header map
HeaderOrders == Orders(HeaderKeys)

sV == <<"v">>

\* maps of appended headers: at most two names, each with an empty or a
\* non-empty value
HeaderMaps ==
  UNION {[K -> {<<>>, sV}] : K \in {S \in SUBSET HeaderKeys : Cardinality(S) <= 2}}

ServiceA ==
  [name |-> sA, namespace |-> <<>>, domain |-> <<>>, service |-> <<>>,
   labels |-> EmptyMap]

OneSecond == [seconds |-> 1, nanos |-> 0]

OneNanosecond == [seconds |-> 0, nanos |-> 1]

RedirectInputs ==
  {NilPtr, [uri |-> sA, authority |-> <<>>], [uri |-> <<>>, authority |-> <<>>]}

RewriteInputs == {NilPtr, [uri |-> sA, authority |-> <<>>]}

\* a fixed delay of one second for every request
LegacyFixedDelay ==
  [delay |-> [percent |-> 100, fixedDelay |-> OneSecond, exponentialDelay |-> NilPtr],
   abort |-> NilPtr]

\* a route rule that passes every check
BaseRouteRule ==
  [kind |-> "RouteRule", destination |-> ServiceA, match |-> NilPtr,
   rewrite |-> NilPtr, redirect |-> NilPtr, route |-> NilPtr, httpFault |-> NilPtr,
   websocketUpgrade |-> FALSE, mirror |-> NilPtr, appendHeaders |-> EmptyMap,
   corsPolicy |-> NilPtr, httpReqTimeout |-> NilPtr, httpReqRetries |-> NilPtr,
   l4Fault |-> NilPtr]

\* the route lists of the route rules: absent, empty, and weights that do
\* and do not total 100
RuleRoutes ==
  {NilPtr} \cup
  {Slice([i \in 1..Len(ws) |-> [labels |-> EmptyMap, weight |-> ws[i]]]) :
     ws \in {<<>>, <<0>>, <<50>>, <<100>>, <<60, 30>>, <<60, 40>>}}

\* route rules that differ in redirect, rewrite, route list, fault and
\* WebSocket upgrade
RouteRulesRedirect ==
  {[BaseRouteRule EXCEPT !.redirect = rd, !.rewrite = rw, !.route = rt,
                         !.httpFault = f, !.websocketUpgrade = ws] :
     rd \in RedirectInputs, rw \in RewriteInputs, rt \in RuleRoutes,
     f \in {NilPtr, LegacyFixedDelay}, ws \in BOOLEAN}

\* route rules that differ in the appended headers
RouteRulesHeaders ==
  {[BaseRouteRule EXCEPT !.appendHeaders = h, !.route = rt] :
     h \in HeaderMaps,
     rt \in {NilPtr, Slice(<<[labels |-> EmptyMap, weight |-> 100]>>)}}

LegacyDelays ==
  {[percent |-> 100, fixedDelay |-> OneSecond, exponentialDelay |-> NilPtr],
   [percent |-> 100, fixedDelay |-> NilPtr, exponentialDelay |-> OneSecond],
   [percent |-> 101, fixedDelay |-> OneNanosecond, exponentialDelay |-> NilPtr]}

LegacyAborts ==
  {[percent |-> 100, errorType |-> t, httpStatus |-> s] :
     t \in {"grpcStatus", "http2Error", "httpStatus"}, s \in {503, 601}}

LegacyThrottle ==
  [percent |-> 100, downstreamLimitBps |-> 1, upstreamLimitBps |-> 1,
   throttleAfterPeriod |-> OneSecond, throttleAfterBytes |-> 0]

LegacyMatches ==
  {[source |-> s, tcp |-> NilPtr, udp |-> u, request |-> r] :
     s \in {NilPtr, ServiceA},
     u \in {NilPtr, [sourceSubnet |-> <<sCIDR>>, destinationSubnet |-> <<sBad>>]},
     r \in {NilPtr} \cup
           {[headers |-> h] :
              h \in {Entry(sA, [type |-> "exact", value |-> sA]),
                     Entry(sUpperA, [type |-> "none", value |-> <<>>]),
                     Entry(<<>>, [type |-> "regex", value |-> sA])}}}

\* route rules that differ from the base rule in one field
RouteRulesOneField ==
  {[BaseRouteRule EXCEPT !.destination = d] :
     d \in {NilPtr, [ServiceA EXCEPT !.name = sBad],
            [ServiceA EXCEPT !.labels = Entry(sA, sA)]}}
  \cup {[BaseRouteRule EXCEPT !.match = m] : m \in LegacyMatches}
  \cup {[BaseRouteRule EXCEPT !.mirror = [ServiceA EXCEPT !.name = n]] : n \in {sA, sBad}}
  \cup {[BaseRouteRule EXCEPT !.corsPolicy =
           [maxAge |-> a, allowHeaders |-> <<h>>, exposeHeaders |-> <<>>,
            allowMethods |-> <<m>>]] :
          a \in {NilPtr, OneSecond, OneNanosecond}, h \in {sA, sUpperA},
          m \in {"GET", "FETCH"}}
  \cup {[BaseRouteRule EXCEPT !.httpReqTimeout = [simpleTimeout |-> t]] :
          t \in {NilPtr, [timeout |-> OneSecond], [timeout |-> OneNanosecond]}}
  \cup {[BaseRouteRule EXCEPT !.httpReqRetries = [simpleRetry |-> r]] :
          r \in {NilPtr, [attempts |-> 1, perTryTimeout |-> OneSecond],
                 [attempts |-> -1, perTryTimeout |-> OneNanosecond]}}
  \cup {[BaseRouteRule EXCEPT !.httpFault = [delay |-> d, abort |-> NilPtr]] :
          d \in LegacyDelays}
  \cup {[BaseRouteRule EXCEPT !.httpFault = [delay |-> NilPtr, abort |-> a]] :
          a \in LegacyAborts}
  \cup {[BaseRouteRule EXCEPT !.l4Fault = [terminate |-> t, throttle |-> th]] :
          t \in {NilPtr, [percent |-> 100], [percent |-> 101]},
          th \in {NilPtr, LegacyThrottle,
                  [LegacyThrottle EXCEPT !.percent = -1, !.throttleAfterBytes = -1]}}

RouteRules == RouteRulesRedirect \cup RouteRulesHeaders \cup RouteRulesOneField

DestinationA == [host |-> sA, subset |-> <<>>, port |-> NilPtr]

\* weights of the destinations of an HTTP route: percentages, a negative
\* weight, and the largest int32
HTTPWeights == {-50, 30, 40, 60, 2147483647}

HTTPRouteLists ==
  {[i \in 1..Len(ws) |-> [destination |-> DestinationA, weight |-> ws[i]]] :
     ws \in SeqsUpTo(HTTPWeights, MaxRoutes)}

HTTPFixedDelay ==
  [abort |-> NilPtr,
   delay |-> [percent |-> 100, httpDelayType |-> "fixedDelay",
              fixedDelay |-> OneSecond, exponentialDelay |-> NilPtr]]

\* an HTTP route that passes every check
BaseHTTPRoute ==
  [redirect |-> NilPtr,
   route |-> <<[destination |-> DestinationA, weight |-> 100]>>,
   fault |-> NilPtr, rewrite |-> NilPtr, websocketUpgrade |-> FALSE,
   appendHeaders |-> EmptyMap, corsPolicy |-> NilPtr, match |-> <<>>,
   mirror |-> NilPtr, retries |-> NilPtr, timeout |-> NilPtr]

\* HTTP routes that differ in the weights of their destinations
HTTPRoutesWeights == {[BaseHTTPRoute EXCEPT !.route = rt] : rt \in HTTPRouteLists}

\* HTTP routes that differ in redirect, rewrite, route list, fault and
\* WebSocket upgrade
HTTPRoutesRedirect ==
  {[BaseHTTPRoute EXCEPT !.redirect = rd, !.rewrite = rw, !.route = rt,
                         !.fault = f, !.websocketUpgrade = ws] :
     rd \in RedirectInputs, rw \in RewriteInputs,
     rt \in {<<>>, <<[destination |-> DestinationA, weight |-> 100]>>},
     f \in {NilPtr, HTTPFixedDelay}, ws \in BOOLEAN}

\* HTTP routes that differ in the appended headers
HTTPRoutesHeaders ==
  {[BaseHTTPRoute EXCEPT !.appendHeaders = h] : h \in HeaderMaps}

HTTPDelays ==
  {[percent |-> 100, httpDelayType |-> "fixedDelay", fixedDelay |-> OneSecond,
    exponentialDelay |-> NilPtr],
   [percent |-> 100, httpDelayType |-> "fixedDelay", fixedDelay |-> NilPtr,
    exponentialDelay |-> NilPtr],
   [percent |-> 100, httpDelayType |-> "exponentialDelay", fixedDelay |-> NilPtr,
    exponentialDelay |-> OneSecond],
   [percent |-> 101, httpDelayType |-> "none", fixedDelay |-> NilPtr,
    exponentialDelay |-> NilPtr]}

HTTPAborts ==
  {[percent |-> 100, errorType |-> t, httpStatus |-> s] :
     t \in {"grpcStatus", "http2Error", "httpStatus", "none"}, s \in {503, 601}}

\* HTTP routes that differ from the base route in one field
HTTPRoutesOneField ==
  {[BaseHTTPRoute EXCEPT !.fault = [abort |-> a, delay |-> d]] :
     a \in {NilPtr} \cup HTTPAborts, d \in {NilPtr} \cup HTTPDelays}
  \cup {[BaseHTTPRoute EXCEPT !.match = <<[headers |-> h, sourceLabels |-> l]>>] :
          h \in {EmptyMap, Entry(sA, sV), Entry(sUpperA, sV)},
          l \in {EmptyMap, Entry(sA, sA), Entry(sWild, sA)}}
  \cup {[BaseHTTPRoute EXCEPT !.mirror = d] :
          d \in {[host |-> h, subset |-> s, port |-> p] :
                   h \in {sA, sBad}, s \in {<<>>, sBad},
                   p \in {NilPtr, [name |-> <<>>, number |-> 0],
                          [name |-> <<>>, number |-> 80]}}}
  \cup {[BaseHTTPRoute EXCEPT !.route = <<[destination |-> NilPtr, weight |-> w]>>] :
          w \in {100, 101}}
  \cup {[BaseHTTPRoute EXCEPT !.corsPolicy =
           [maxAge |-> a, allowHeaders |-> <<h>>, exposeHeaders |-> <<>>,
            allowMethods |-> <<m>>]] :
          a \in {NilPtr, OneSecond, OneNanosecond}, h \in {sA, sUpperA},
          m \in {"GET", "FETCH"}}
  \cup {[BaseHTTPRoute EXCEPT !.retries = [attempts |-> n, perTryTimeout |-> t]] :
          n \in {0, 1}, t \in {NilPtr, OneSecond, OneNanosecond}}
  \cup {[BaseHTTPRoute EXCEPT !.timeout = t] : t \in {OneSecond, OneNanosecond}}

HTTPRouteInputs ==
  HTTPRoutesWeights \cup HTTPRoutesRedirect \cup HTTPRoutesHeaders
  \cup HTTPRoutesOneField

\* a virtual service that passes every check
BaseVirtualService ==
  [kind |-> "VirtualService", gateways |-> <<>>, hosts |-> <<sADotA>>,
   http |-> <<BaseHTTPRoute>>, tcp |-> <<>>]

\* virtual services of one HTTP route; of none and of two; and of several
\* gateways and hosts
VirtualServices ==
  {[BaseVirtualService EXCEPT !.http = <<r>>] : r \in HTTPRouteInputs}
  \cup {[BaseVirtualService EXCEPT !.http = h, !.tcp = t] :
          h \in {<<>>,
                 <<BaseHTTPRoute, [BaseHTTPRoute EXCEPT !.route = <<>>]>>,
                 <<[BaseHTTPRoute EXCEPT !.route = <<>>],
                   [BaseHTTPRoute EXCEPT !.appendHeaders = Entry(sUpperA, sV)]>>},
          t \in {<<>>, <<"tcp">>}}
  \cup {[BaseVirtualService EXCEPT !.gateways = g, !.hosts = h] :
          g \in SeqsUpTo({sA, sBad, IstioMeshGateway}, 1),
          h \in SeqsUpTo({sADotA, sWildDotA, sWild, sBad, sCIDR}, 2)}

TLSInputs ==
  {NilPtr,
   [mode |-> "SIMPLE", serverCertificate |-> "", caCertificates |-> ""],
   [mode |-> "SIMPLE", serverCertificate |-> "cert", caCertificates |-> ""],
   [mode |-> "MUTUAL", serverCertificate |-> "cert", caCertificates |-> ""],
   [mode |-> "MUTUAL", serverCertificate |-> "", caCertificates |-> ""],
   [mode |-> "MUTUAL", serverCertificate |-> "cert", caCertificates |-> "ca"],
   [mode |-> "PASSTHROUGH", serverCertificate |-> "", caCertificates |-> ""]}

ServerPortInputs ==
  {NilPtr,
   [number |-> 80, protocol |-> "HTTP", name |-> sA],
   [number |-> 443, protocol |-> "HTTPS", name |-> sC],
   [number |-> 65536, protocol |-> "foo", name |-> <<>>]}

ServerInputs ==
  {[hosts |-> h, tls |-> t, port |-> p] :
     h \in {<<sWildDotA>>, <<sBad>>}, t \in {NilPtr}, p \in ServerPortInputs}
  \cup {[hosts |-> h, tls |-> NilPtr,
         port |-> [number |-> 80, protocol |-> "HTTP", name |-> sA]] :
          h \in {<<>>, <<sIP>>, <<sCIDR>>, <<sIPv6>>, <<sWildDotA, sBad>>}}
  \cup {[hosts |-> <<sWildDotA>>, tls |-> t,
         port |-> [number |-> 80, protocol |-> "HTTP", name |-> sA]] :
          t \in TLSInputs}

sHTTP == <<"h", "t", "t", "p">>

\* servers that differ in the port only: two ports of the name http, one
\* of another name, and the unset port
NamedPortServers ==
  {[hosts |-> <<sWildDotA>>, tls |-> NilPtr, port |-> p] :
     p \in {NilPtr,
            [number |-> 80, protocol |-> "HTTP", name |-> sHTTP],
            [number |-> 8080, protocol |-> "HTTP", name |-> sHTTP],
            [number |-> 443, protocol |-> "HTTPS", name |-> sC]}}

Gateways ==
  {[kind |-> "Gateway", servers |-> ss] : ss \in SeqsUpTo(ServerInputs, MaxServers)}
  \cup {[kind |-> "Gateway", servers |-> ss] : ss \in SeqsUpTo(NamedPortServers, 3)}

IstioServiceInputs ==
  {[name |-> <<>>, namespace |-> <<>>, domain |-> <<>>, service |-> sv,
    labels |-> EmptyMap] :
     sv \in {<<>>, sWild, sWildDotA, sWildDashA, sWildA, sADotA, sBad, sCIDR,
             <<"a", "/", "a">>}}
  \cup {[name |-> sA, namespace |-> sA, domain |-> sADotA, service |-> sADotA,
         labels |-> Entry(sA, sA)]}

EgressPortInputs ==
  {[port |-> 80, protocol |-> "HTTP"], [port |-> 80, protocol |-> "UDP"],
   [port |-> 0, protocol |-> "HTTP"], [port |-> 0, protocol |-> "UDP"],
   [port |-> 65536, protocol |-> "foo"], [port |-> 443, protocol |-> "tcp"]}

EgressRules ==
  {[kind |-> "EgressRule", destination |-> d, ports |-> ps, useEgressProxy |-> u] :
     d \in {NilPtr} \cup IstioServiceInputs,
     ps \in SeqsUpTo(EgressPortInputs, MaxEgressPorts),
     u \in BOOLEAN}

ServicePortLists ==
  LET pa == [name |-> sA, number |-> 80, protocol |-> "HTTP"]
      pc == [name |-> sC, number |-> 81, protocol |-> "TCP"]
  IN {<<>>, <<pa>>, <<pa, pc>>,
      <<pa, [name |-> sA, number |-> 80, protocol |-> "foo"]>>,
      <<pa, [name |-> sA, number |-> 81, protocol |-> "HTTP"]>>,
      <<pa, [name |-> sC, number |-> 80, protocol |-> "HTTP"]>>,
      <<pa, pc, pa>>}

EndpointInputs ==
  {[address |-> a, ports |-> EmptyMap, labels |-> EmptyMap] :
     a \in {sIP, sIPv6, sADotA, sUnix, sUnixRelative, sUnixEmpty}}
  \cup {[address |-> sUnix, ports |-> Entry(sA, 80), labels |-> EmptyMap]}
  \cup {[address |-> sIP, ports |-> [k \in {sC, sWild} |-> 0],
         labels |-> [k \in {sA, sWild} |-> sWild]]}

ServiceEntries ==
  {[kind |-> "ServiceEntry", hosts |-> h, addresses |-> a, ports |-> ps,
    resolution |-> r, endpoints |-> es] :
     h \in {<<sADotA>>}, a \in {<<>>},
     ps \in ServicePortLists,
     r \in {"NONE", "STATIC", "DNS", "OTHER"},
     es \in SeqsUpTo(EndpointInputs, MaxEndpoints)}
  \cup
  {[kind |-> "ServiceEntry", hosts |-> h, addresses |-> a,
    ports |-> <<[name |-> sA, number |-> 80, protocol |-> "HTTP"]>>,
    resolution |-> r, endpoints |-> <<>>] :
     h \in {<<>>, <<sWild>>, <<sA>>, <<sWildDotA>>, <<sWildA>>, <<sADotA, sBad>>,
            <<<<"a", ".", "*">>>>},
     a \in {<<>>, <<sCIDR>>, <<sIP>>, <<sCIDR, sIPv6>>},
     r \in {"NONE", "DNS"}}

JwtInputs ==
  {[issuer |-> i, audiences |-> <<"aud">>, jwksUri |-> "https://a/jwks",
    jwtHeaders |-> <<>>, jwtParams |-> <<>>] : i \in {"i1", "i2"}}
  \cup {[issuer |-> "", audiences |-> <<"">>, jwksUri |-> "a",
         jwtHeaders |-> <<"">>, jwtParams |-> <<"">>]}

TargetInputs ==
  {[name |-> sA, ports |-> <<>>],
   [name |-> sBad, ports |-> <<[name |-> <<>>, number |-> 0],
                               [name |-> sA, number |-> 0],
                               [name |-> <<>>, number |-> 65536]>>]}

Policies ==
  {[kind |-> "Policy", targets |-> ts, peers |-> ps, origins |-> os] :
     ts \in SeqsUpTo(TargetInputs, 1),
     ps \in SeqsUpTo({[jwt |-> j] : j \in {NilPtr} \cup JwtInputs}, MaxMethods),
     os \in SeqsUpTo({[jwt |-> j] : j \in {NilPtr} \cup JwtInputs}, MaxMethods)}

\* the names and namespaces the configuration store hands to the validators
PolicyNames == {DefaultAuthenticationPolicyName, "foo"}
Namespaces == {"", "ns"}

AttributeValueInputs ==
  {[type |-> "string", stringValue |-> "s"],
   [type |-> "string", stringValue |-> ""],
   [type |-> "duration", durationValue |-> NilPtr],
   [type |-> "duration", durationValue |-> [seconds |-> 1, nanos |-> 0]],
   [type |-> "duration", durationValue |-> [seconds |-> 0, nanos |-> 500000]],
   [type |-> "bytes", bytesLen |-> 0],
   [type |-> "timestamp", timestampValue |-> "nil"],
   [type |-> "timestamp", timestampValue |-> "valid"],
   [type |-> "stringmap", stringMapValue |-> "nil"],
   [type |-> "int64"]}

MixerAttributeObjects ==
  {[kind |-> "Attributes", attributes |-> m] :
     m \in UNION {[ks -> AttributeValueInputs] : ks \in SUBSET {sA, sC}}}

\* the top-level attributes of an HTTP API spec: absent, one valid
\* attribute, one attribute with one failure, an empty list
SpecAttributeInputs ==
  {NilPtr,
   [kind |-> "Attributes", attributes |-> Entry(sA, [type |-> "string", stringValue |-> "s"])],
   [kind |-> "Attributes", attributes |-> Entry(sA, [type |-> "string", stringValue |-> ""])],
   [kind |-> "Attributes", attributes |-> EmptyMap]}

\* patterns: two that are well-formed, one without a method, one with an
\* empty URI template
PatternInputs ==
  {[httpMethod |-> "GET", type |-> "uriTemplate", value |-> "/a"],
   [httpMethod |-> "GET", type |-> "regex", value |-> "a.*"],
   [httpMethod |-> "", type |-> "regex", value |-> "a.*"],
   [httpMethod |-> "GET", type |-> "uriTemplate", value |-> ""]}

HTTPAPISpecs ==
  {[kind |-> "HTTPAPISpec", attributes |-> a, patterns |-> ps, apiKeys |-> ks] :
     a \in SpecAttributeInputs,
     ps \in SeqsUpTo(PatternInputs, MaxPatterns),
     ks \in {<<>>, <<[type |-> "query", value |-> "key"], [type |-> "header", value |-> ""]>>}}

RbacConfigs ==
  {[kind |-> "RbacConfig", mode |-> m] :
     m \in {"OFF", "ON", "ON_WITH_INCLUSION", "ON_WITH_EXCLUSION"}}

\* the typed objects a caller may hold
Configs ==
  Gateways \cup EgressRules \cup ServiceEntries \cup Policies
  \cup MixerAttributeObjects \cup RbacConfigs \cup RouteRules
  \cup VirtualServices \cup HTTPAPISpecs

-----------------------------------------------------------------------------
(* The calls *)

\* the goroutines that call validators
Workers == 1..MaxWorkers

\* the frame of a goroutine that is not in a call
NoCall == [pc |-> "idle", policy |-> NilPtr, i |-> 0, errs |-> Nil]

Init ==
  /\ op = "none"
  /\ arg = [none |-> TRUE]
  /\ config \in {NoConfig} \cup Configs
  /\ ret = Nil
  /\ calls = [w \in Workers |-> NoCall]
  /\ table = supportedMethods

\* the caller has not yet made its call
Idle == op = "none"

CallAppendErrors ==
  /\ Idle /\ config = NoConfig
  /\ \E err \in Outcomes, errs \in SeqsUpTo(Outcomes, MaxArgs) :
       /\ op' = "appendErrors"
       /\ arg' = [err |-> err, errs |-> errs]
       /\ ret' = appendErrors(err, errs)
       /\ UNCHANGED <<config, calls, table>>

CallValidatePort ==
  /\ Idle /\ config = NoConfig
  /\ \E port \in PortInputs :
       /\ op' = "ValidatePort"
       /\ arg' = [port |-> port]
       /\ ret' = ValidatePort(port)
       /\ UNCHANGED <<config, calls, table>>

CallIsWildcardDNS1123Label ==
  /\ Idle /\ config = NoConfig
  /\ \E value \in LabelInputs :
       /\ op' = "IsWildcardDNS1123Label"
       /\ arg' = [value |-> value]
       /\ ret' = Bool(IsWildcardDNS1123Label(value))
       /\ UNCHANGED <<config, calls, table>>

CallIsDNS1123Label ==
  /\ Idle /\ config = NoConfig
  /\ \E value \in LabelInputs :
       /\ op' = "IsDNS1123Label"
       /\ arg' = [value |-> value]
       /\ ret' = Bool(IsDNS1123Label(value))
       /\ UNCHANGED <<config, calls, table>>

CallValidateWeights ==
  /\ Idle /\ config = NoConfig
  /\ \E routes \in WeightLists :
       /\ op' = "ValidateWeights"
       /\ arg' = [routes |-> routes]
       /\ ret' = ValidateWeights(routes)
       /\ UNCHANGED <<config, calls, table>>

CallValidateDuration ==
  /\ Idle /\ config = NoConfig
  /\ \E pd \in DurationInputs :
       /\ op' = "ValidateDuration"
       /\ arg' = [pd |-> pd]
       /\ ret' = ValidateDuration(pd)
       /\ UNCHANGED <<config, calls, table>>

CallValidateDurationGogo ==
  /\ Idle /\ config = NoConfig
  /\ \E pd \in DurationInputs :
       /\ op' = "ValidateDurationGogo"
       /\ arg' = [pd |-> pd]
       /\ ret' = ValidateDurationGogo(pd)
       /\ UNCHANGED <<config, calls, table>>

CallValidateRefreshDelay ==
  /\ Idle /\ config = NoConfig
  /\ \E refresh \in DurationInputs :
       /\ op' = "ValidateRefreshDelay"
       /\ arg' = [pd |-> refresh]
       /\ ret' = ValidateRefreshDelay(refresh)
       /\ UNCHANGED <<config, calls, table>>

CallValidateConnectTimeout ==
  /\ Idle /\ config = NoConfig
  /\ \E timeout \in DurationInputs :
       /\ op' = "ValidateConnectTimeout"
       /\ arg' = [pd |-> timeout]
       /\ ret' = ValidateConnectTimeout(timeout)
       /\ UNCHANGED <<config, calls, table>>

CallValidateParentAndDrain ==
  /\ Idle /\ config = NoConfig
  /\ \E drainTime \in DurationInputs, parentShutdown \in DurationInputs :
       /\ op' = "ValidateParentAndDrain"
       /\ arg' = [drainTime |-> drainTime, parentShutdown |-> parentShutdown]
       /\ ret' = ValidateParentAndDrain(drainTime, parentShutdown)
       /\ UNCHANGED <<config, calls, table>>

CallValidateWildcardDomain ==
  /\ Idle /\ config = NoConfig
  /\ \E domain \in DomainInputs :
       /\ op' = "ValidateWildcardDomain"
       /\ arg' = [domain |-> domain]
       /\ ret' = ValidateWildcardDomain(domain)
       /\ UNCHANGED <<config, calls, table>>

CallValidateGateway ==
  /\ Idle /\ config # NoConfig
  /\ op' = "ValidateGateway"
  /\ arg' = [name |-> "foo", namespace |-> "ns"]
  /\ ret' = ValidateGateway(config)
  /\ UNCHANGED <<config, calls, table>>

CallValidateEgressRule ==
  /\ Idle /\ config # NoConfig
  /\ op' = "ValidateEgressRule"
  /\ arg' = [name |-> "foo", namespace |-> "ns"]
  /\ ret' = ValidateEgressRule(config)
  /\ config' = AfterValidateEgressRule(config)
  /\ UNCHANGED <<calls, table>>

CallValidateServiceEntry ==
  /\ Idle /\ config # NoConfig
  /\ \E ord \in KeyOrders :
       /\ op' = "ValidateServiceEntry"
       /\ arg' = [name |-> "foo", namespace |-> "ns"]
       /\ ret' = ValidateServiceEntry(config, ord)
       /\ config' = AfterValidateServiceEntry(config)
       /\ UNCHANGED <<calls, table>>

CallValidateAuthenticationPolicy ==
  /\ Idle /\ config # NoConfig
  /\ \E name \in PolicyNames, namespace \in Namespaces :
       /\ op' = "ValidateAuthenticationPolicy"
       /\ arg' = [name |-> name, namespace |-> namespace]
       /\ ret' = ValidateAuthenticationPolicy(name, namespace, config)
       /\ UNCHANGED <<config, calls, table>>

CallValidateMixerAttributes ==
  /\ Idle /\ config # NoConfig
  /\ \E ord \in KeyOrders :
       /\ op' = "ValidateMixerAttributes"
       /\ arg' = [none |-> TRUE]
       /\ ret' = ValidateMixerAttributes(config, ord)
       /\ UNCHANGED <<config, calls, table>>

CallValidateHTTPAPISpec ==
  /\ Idle /\ config # NoConfig
  /\ \E ord \in KeyOrders :
       /\ op' = "ValidateHTTPAPISpec"
       /\ arg' = [name |-> "foo", namespace |-> "ns"]
       /\ ret' = ValidateHTTPAPISpec(config, ord)
       /\ UNCHANGED <<config, calls, table>>

CallValidateRbacConfig ==
  /\ Idle /\ config # NoConfig
  /\ op' = "ValidateRbacConfig"
  /\ arg' = [name |-> "foo", namespace |-> "ns"]
  /\ ret' = ValidateRbacConfig(config)
  /\ UNCHANGED <<config, calls, table>>

CallValidateRouteRule ==
  /\ Idle /\ config # NoConfig
  /\ \E ord \in KeyOrders, ordH \in HeaderOrders :
       /\ op' = "ValidateRouteRule"
       /\ arg' = [none |-> TRUE]
       /\ ret' = ValidateRouteRule(config, ord, ordH)
       /\ UNCHANGED <<config, calls, table>>

CallValidateVirtualService ==
  /\ Idle /\ config # NoConfig
  /\ \E ord \in KeyOrders, ordH \in HeaderOrders :
       /\ op' = "ValidateVirtualService"
       /\ arg' = [none |-> TRUE]
       /\ ret' = ValidateVirtualService(config, ord, ordH)
       /\ UNCHANGED <<config, calls, table>>

Next ==
  \/ CallAppendErrors
  \/ CallValidatePort
  \/ CallIsWildcardDNS1123Label
  \/ CallValidateWildcardDomain
  \/ CallValidateGateway
  \/ CallValidateEgressRule
  \/ CallValidateServiceEntry
  \/ CallValidateAuthenticationPolicy
  \/ CallValidateMixerAttributes
  \/ CallValidateRbacConfig
  \/ CallIsDNS1123Label
  \/ CallValidateWeights
  \/ CallValidateDuration
  \/ CallValidateDurationGogo
  \/ CallValidateRefreshDelay
  \/ CallValidateConnectTimeout
  \/ CallValidateParentAndDrain
  \/ CallValidateRouteRule
  \/ CallValidateVirtualService
  \/ CallValidateHTTPAPISpec

Spec == Init /\ [][Next]_vars

-----------------------------------------------------------------------------
(* Concurrent calls.  Each goroutine validates a CORS policy of its own;   *)
(* calls[w] is the frame of the call of goroutine w (its position, its     *)
(* argument, the index of its loop, its result errs) and table is the      *)
(* package-level map supportedMethods, the state the calls share.  One     *)
(* step of a goroutine is one iteration of the loop over AllowMethods, so  *)
(* the iterations of different calls interleave in every order.            *)

\* the CORS policies the goroutines validate
CorsPolicies ==
  {[maxAge |-> a, allowHeaders |-> <<h>>, exposeHeaders |-> <<>>, allowMethods |-> ms] :
     a \in {NilPtr, OneNanosecond}, h \in {sA, sUpperA},
     ms \in SeqsUpTo({"GET", "FETCH"}, MaxMethods)}

\* validateHTTPMethod on the map the package-level variable holds now
validateHTTPMethodIn(methods, method) ==
  IF method \notin methods THEN Err("is not a supported HTTP method") ELSE Nil

\* the map after an index expression that stores the key it looked up
supportedMethodsStoring(methods, method) == methods \cup {method}

\* the map after the index expression supportedMethods[method]: an index
\* expression that is not the target of an assignment leaves the map as it is
supportedMethodsAfterIndex(methods, method) == methods

\* a goroutine calls validateCORSPolicy on a policy that is not nil
BeginValidateCORSPolicy ==
  /\ \E w \in Workers, policy \in CorsPolicies :
       /\ calls[w].pc = "idle"
       /\ calls' = [calls EXCEPT ![w] =
                      [pc |-> "methods", policy |-> policy, i |-> 1, errs |-> Nil]]
  /\ UNCHANGED <<op, arg, config, ret, table>>

\* one iteration of the loop over policy.AllowMethods
StepAllowMethods ==
  /\ \E w \in Workers :
       /\ calls[w].pc = "methods"
       /\ calls[w].i <= Len(calls[w].policy.allowMethods)
       /\ LET method == calls[w].policy.allowMethods[calls[w].i]
          IN /\ calls' = [calls EXCEPT
                            ![w].errs = appendErrors(@, <<validateHTTPMethodIn(table, method)>>),
                            ![w].i = @ + 1]
             /\ table' = supportedMethodsAfterIndex(table, method)
  /\ UNCHANGED <<op, arg, config, ret>>

\* the rest of validateCORSPolicy after the loop over the methods: the
\* loops over the header names and the maximal age, which read the policy
\* and write errs only
FinishValidateCORSPolicy ==
  /\ \E w \in Workers :
       /\ calls[w].pc = "methods"
       /\ calls[w].i > Len(calls[w].policy.allowMethods)
       /\ calls' = [calls EXCEPT
                      ![w].pc = "returned",
                      ![w].errs =
                         corsMaxAge(
                           corsHeaderNames(
                             corsHeaderNames(@, calls[w].policy.allowHeaders),
                             calls[w].policy.exposeHeaders),
                           calls[w].policy.maxAge)]
  /\ UNCHANGED <<op, arg, config, ret, table>>

\* the caller has taken the result; the goroutine is free for a new call
TakeResult ==
  /\ \E w \in Workers :
       /\ calls[w].pc = "returned"
       /\ calls' = [calls EXCEPT ![w] = NoCall]
  /\ UNCHANGED <<op, arg, config, ret, table>>

InitConcurrent ==
  /\ op = "none"
  /\ arg = [none |-> TRUE]
  /\ config = NoConfig
  /\ ret = Nil
  /\ calls = [w \in Workers |-> NoCall]
  /\ table = supportedMethods

NextConcurrent ==
  \/ BeginValidateCORSPolicy
  \/ StepAllowMethods
  \/ FinishValidateCORSPolicy
  \/ TakeResult

SpecConcurrent == InitConcurrent /\ [][NextConcurrent]_vars

-----------------------------------------------------------------------------
(* Error accumulator *)

\* the failures of a sequence of outcomes, in order
RECURSIVE ConcatFailures(_)
ConcatFailures(es) ==
  IF es = <<>> THEN <<>>
  ELSE Failures(Head(es)) \o ConcatFailures(Tail(es))

AllAbsent(es) == \A i \in 1..Len(es) : IsNil(es[i])

\* C1: the aggregated outcome of appendErrors is absent if and only if the
\* initial outcome and every further outcome is absent, and the same holds
\* of the accumulated outcome after every step of the fold.
C1_AbsentIffAllAbsent ==
  op = "appendErrors" =>
    /\ IsNil(ret) <=> AllAbsent(<<arg.err>> \o arg.errs)
    /\ \A k \in 0..Len(arg.errs) :
         IsNil(appendErrors(arg.err, SubSeq(arg.errs, 1, k)))
           <=> AllAbsent(<<arg.err>> \o SubSeq(arg.errs, 1, k))

\* a validator merged two absent outcomes into an absent one
C1_Witness ==
  /\ op = "appendErrors"
  /\ Len(arg.errs) = 2
  /\ AllAbsent(<<arg.err>> \o arg.errs)
  /\ IsNil(ret)

\* C2: when some input of appendErrors is a failure, the aggregated outcome
\* enumerates exactly the failures of its inputs in input order, an
\* aggregated input contributing each of its failures.
C2_EnumeratesEveryFailure ==
  (op = "appendErrors" /\ ~AllAbsent(<<arg.err>> \o arg.errs)) =>
    /\ ret.tag \in {"single", "multi"}
    /\ Failures(ret) = ConcatFailures(<<arg.err>> \o arg.errs)

\* a plain failure, then an aggregate of two, then a plain failure
C2_Witness ==
  /\ op = "appendErrors"
  /\ arg.err.tag = "single"
  /\ Len(arg.errs) = 2
  /\ arg.errs[1].tag = "multi" /\ Len(arg.errs[1].errors) = 2
  /\ arg.errs[2].tag = "single"
  /\ Len(Failures(ret)) = 4

\* C3: appendErrors is associative: (a + b) + c enumerates the failures of
\* a + (b + c) in the same order, and the result is absent or present
\* whatever the order in which the inputs are merged.
C3_Associative ==
  (op = "appendErrors" /\ Len(arg.errs) = 2) =>
    LET a == arg.err
        b == arg.errs[1]
        c == arg.errs[2]
        right == appendErrors(a, <<appendErrors(b, <<c>>)>>)
    IN /\ ret.tag \in {"nil", "single", "multi"}
       /\ Failures(ret) = Failures(right)
       /\ IsNil(ret) <=> IsNil(right)
       /\ IsNil(ret) <=> IsNil(appendErrors(c, <<b, a>>))
       /\ IsNil(ret) <=> IsNil(appendErrors(b, <<a, c>>))

\* three present outcomes, the last two of which aggregate when merged first
C3_Witness ==
  /\ op = "appendErrors"
  /\ Len(arg.errs) = 2
  /\ arg.err.tag = "single"
  /\ arg.errs[1].tag = "single"
  /\ arg.errs[2].tag = "multi"
  /\ Len(Failures(ret)) >= 3

-----------------------------------------------------------------------------
(* Primitive validators *)

\* C8: ValidatePort(p) succeeds if and only if 1 <= p <= 65535.
C8_PortRange ==
  op = "ValidatePort" =>
    (IsNil(ret) <=> (1 <= arg.port /\ arg.port <= 65535))

\* the upper boundary was accepted
C8_Witness ==
  /\ op = "ValidatePort"
  /\ arg.port = 65535
  /\ IsNil(ret)

\* a DNS-1123 label as the grammar is documented: alphanumeric at both
\* ends, alphanumerics and `-` between
DocumentedLabel(s) ==
  /\ Len(s) >= 1
  /\ \A i \in 1..Len(s) : IsAlnumOrDash(s[i])
  /\ IsAlnum(s[1]) /\ IsAlnum(s[Len(s)])

\* a wildcard label as the grammar is documented: `*`, or a label
\* optionally preceded by `*` or `*-`
DocumentedWildcardLabel(s) ==
  \/ s = <<"*">>
  \/ DocumentedLabel(s)
  \/ Len(s) >= 2 /\ s[1] = "*" /\ DocumentedLabel(From(s, 1))
  \/ Len(s) >= 3 /\ s[1] = "*" /\ s[2] = "-" /\ DocumentedLabel(From(s, 2))

\* C9: IsWildcardDNS1123Label(s) is true if and only if len(s) <= 63 and the
\* whole of s is `*` or a DNS-1123 label optionally preceded by `*` or `*-`.
C9_WildcardLabelGrammar ==
  op = "IsWildcardDNS1123Label" =>
    (ret.tag = "true" <=>
       (Len(arg.value) <= 63 /\ DocumentedWildcardLabel(arg.value)))

\* the first label of the domain
FirstLabel(domain) == SubSeq(domain, 1, IndexFrom(domain, ".", 1) - 1)

\* the domain carries `*` after its first label
StarAfterFirstLabel(domain) ==
  \E i \in 1..Len(domain) :
    domain[i] = "*" /\ i > IndexFrom(domain, ".", 1)

C11_LabelGrammar ==
  op = "IsDNS1123Label" =>
    (ret.tag = "true" <=>
       /\ 1 <= Len(arg.value) /\ Len(arg.value) <= 63
       /\ \A i \in 1..Len(arg.value) : arg.value[i] \in Lower \cup Upper \cup Digit \cup {"-"}
       /\ arg.value[1] \in Lower \cup Upper \cup Digit
       /\ arg.value[Len(arg.value)] \in Lower \cup Upper \cup Digit)

\* a label of 64 letters, one over the limit, was refused
C11_Witness ==
  /\ op = "IsDNS1123Label"
  /\ Len(arg.value) = 64
  /\ \A i \in 1..64 : arg.value[i] = "a"
  /\ ret.tag = "false"

-----------------------------------------------------------------------------
(* Destination weights *)

\* the weights of a route list
WeightsOf(routes) == [i \in 1..Len(routes) |-> routes[i].weight]

\* the weights of the list sum to exactly 100: the sum of the positive
\* weights is the sum of the negated negative weights plus 100
RECURSIVE PositivePart(_)
PositivePart(ws) ==
  IF ws = <<>> THEN Wide(0)
  ELSE WideAdd(IF Head(ws) > 0 THEN Wide(Head(ws)) ELSE Wide(0), PositivePart(Tail(ws)))

RECURSIVE NegativePart(_)
NegativePart(ws) ==
  IF ws = <<>> THEN Wide(0)
  ELSE WideAdd(IF Head(ws) < 0 THEN Wide(-Head(ws)) ELSE Wide(0), NegativePart(Tail(ws)))

SumsTo100(ws) == PositivePart(ws) = WideAdd(NegativePart(ws), Wide(100))

SumsToMoreThan100(ws) ==
  WideGreater(PositivePart(ws), WideAdd(NegativePart(ws), Wide(100)))

\* C12: ValidateWeights on a route list with more than one entry succeeds
\* if and only if the weights sum to exactly 100; the single-entry lists
\* with weight 100 and with weight 0 succeed.
C12_LegacyWeightsTotal100 ==
  op = "ValidateWeights" =>
    /\ Len(arg.routes) > 1 => (IsNil(ret) <=> SumsTo100(WeightsOf(arg.routes)))
    /\ WeightsOf(arg.routes) \in {<<100>>, <<0>>} => IsNil(ret)

\* the weights 60 and 30 were refused with one failure
C12_Witness ==
  /\ op = "ValidateWeights"
  /\ WeightsOf(arg.routes) = <<60, 30>>
  /\ Len(Failures(ret)) = 1

-----------------------------------------------------------------------------
(* Durations *)

\* the whole milliseconds of the span the wire duration pd stands for,
\* rounded down, and the nanoseconds beyond them
MillisFloor(pd) == pd.seconds * 1000 + (pd.nanos \div 1000000)
NanosBeyondMillis(pd) == pd.nanos % 1000000

\* the span is at least 1ms and an exact multiple of 1ms
AtLeastOneMillisecond(pd) == MillisFloor(pd) >= 1
ExactMilliseconds(pd) == NanosBeyondMillis(pd) = 0

\* C14: ValidateDuration and ValidateDurationGogo accept a duration if and
\* only if it decodes to a span that is at least 1ms and an exact multiple
\* of 1ms; a duration that does not decode is rejected.
C14_DurationMillisecond ==
  op \in {"ValidateDuration", "ValidateDurationGogo"} =>
    (IsNil(ret) <=>
       /\ DurationDecodes(arg.pd)
       /\ AtLeastOneMillisecond(arg.pd)
       /\ ExactMilliseconds(arg.pd))

\* 1500 microseconds were refused by ValidateDuration for their precision
C14_Witness ==
  /\ op = "ValidateDuration"
  /\ arg.pd = [seconds |-> 0, nanos |-> 1500000]
  /\ Failures(ret) = <<"only durations to ms precision are supported">>

\* the span of pd lies in the window of lo to hi milliseconds, ends included
WithinMillis(pd, lo, hi) ==
  /\ lo <= MillisFloor(pd)
  /\ MillisFloor(pd) < hi \/ (MillisFloor(pd) = hi /\ NanosBeyondMillis(pd) = 0)

\* C15: ValidateRefreshDelay accepts a duration if and only if it passes
\* ValidateDuration and lies in [1s, 10m]; ValidateConnectTimeout accepts if
\* and only if it passes ValidateDuration and lies in [1ms, 30s]; the ends
\* of both windows are accepted.
C15_DurationWindows ==
  /\ op = "ValidateRefreshDelay" =>
       (IsNil(ret) <=>
          /\ DurationDecodes(arg.pd)
          /\ AtLeastOneMillisecond(arg.pd) /\ ExactMilliseconds(arg.pd)
          /\ WithinMillis(arg.pd, 1000, 600000))
  /\ op = "ValidateConnectTimeout" =>
       (IsNil(ret) <=>
          /\ DurationDecodes(arg.pd)
          /\ AtLeastOneMillisecond(arg.pd) /\ ExactMilliseconds(arg.pd)
          /\ WithinMillis(arg.pd, 1, 30000))

\* a refresh delay of exactly 10 minutes was accepted
C15_Witness ==
  /\ op = "ValidateRefreshDelay"
  /\ arg.pd = [seconds |-> 600, nanos |-> 0]
  /\ IsNil(ret)

\* pd passes the duration validator
WellFormed(pd) ==
  DurationDecodes(pd) /\ AtLeastOneMillisecond(pd) /\ ExactMilliseconds(pd)

\* the span is a whole number of seconds
WholeSeconds(pd) == MillisFloor(pd) % 1000 = 0 /\ NanosBeyondMillis(pd) = 0

\* the span of a is longer than the span of b
Longer(a, b) ==
  \/ MillisFloor(a) > MillisFloor(b)
  \/ MillisFloor(a) = MillisFloor(b) /\ NanosBeyondMillis(a) > NanosBeyondMillis(b)

\* the number of conditions on the values of the two durations that are
\* violated: whole seconds (2), parent longer than drain, at most 1h (2)
ViolatedValueConditions(drain, parent) ==
  (IF WholeSeconds(drain) THEN 0 ELSE 1)
  + (IF WholeSeconds(parent) THEN 0 ELSE 1)
  + (IF Longer(parent, drain) THEN 0 ELSE 1)
  + (IF WithinMillis(drain, 0, 3600000) THEN 0 ELSE 1)
  + (IF WithinMillis(parent, 0, 3600000) THEN 0 ELSE 1)

\* the number of the two durations that are not well-formed
Malformed(drain, parent) ==
  (IF WellFormed(drain) THEN 0 ELSE 1) + (IF WellFormed(parent) THEN 0 ELSE 1)

-----------------------------------------------------------------------------
(* Per-resource validators: failure semantics *)

\* the resource kind each validator expects
ExpectedKind ==
  [v \in {"ValidateGateway", "ValidateEgressRule", "ValidateServiceEntry",
          "ValidateAuthenticationPolicy", "ValidateMixerAttributes",
          "ValidateRbacConfig", "ValidateRouteRule", "ValidateVirtualService",
          "ValidateHTTPAPISpec"} |->
     CASE v = "ValidateGateway" -> "Gateway"
       [] v = "ValidateEgressRule" -> "EgressRule"
       [] v = "ValidateServiceEntry" -> "ServiceEntry"
       [] v = "ValidateAuthenticationPolicy" -> "Policy"
       [] v = "ValidateMixerAttributes" -> "Attributes"
       [] v = "ValidateRbacConfig" -> "RbacConfig"
       [] v = "ValidateRouteRule" -> "RouteRule"
       [] v = "ValidateVirtualService" -> "VirtualService"
       [] v = "ValidateHTTPAPISpec" -> "HTTPAPISpec"]

\* the wrong-kind failure of each validator
CastFailure ==
  [v \in DOMAIN ExpectedKind |->
     CASE v = "ValidateGateway" -> "cannot cast to gateway"
       [] v = "ValidateEgressRule" -> "cannot cast to egress rule"
       [] v = "ValidateServiceEntry" -> "cannot cast to service entry"
       [] v = "ValidateAuthenticationPolicy" -> "cannot cast to AuthenticationPolicy"
       [] v = "ValidateMixerAttributes" -> "cannot case to attributes"
       [] v = "ValidateRbacConfig" -> "cannot cast to RbacConfig"
       [] v = "ValidateRouteRule" -> "cannot cast to routing rule"
       [] v = "ValidateVirtualService" -> "cannot cast to virtual service"
       [] v = "ValidateHTTPAPISpec" -> "cannot case to HTTPAPISpec"]

\* a per-resource validator was called
ValidatorCalled == op \in DOMAIN ExpectedKind

\* C4: a per-resource validator handed an object that is not of the kind it
\* expects returns exactly one failure, the wrong-kind failure, and nothing
\* else.
C4_WrongKindOnly ==
  (ValidatorCalled /\ config.kind # ExpectedKind[op]) =>
    /\ ret.tag \in {"single", "multi"}
    /\ Failures(ret) = <<CastFailure[op]>>

\* ValidateRbacConfig was handed a service entry of an unsupported
\* resolution mode and reported the cast failure alone
C4_Witness ==
  /\ op = "ValidateRbacConfig"
  /\ config.kind = "ServiceEntry"
  /\ config.resolution = "OTHER"
  /\ Failures(ret) = <<"cannot cast to RbacConfig">>

\* the number of entries of errs that equal m
CountOf(errs, m) == Cardinality({i \in 1..Len(errs) : errs[i] = m})

PortOutOfRange(port) == ~(1 <= port.port /\ port.port <= 65535)

ProtocolNotEgressSupported(port) ==
  ~IsEgressRulesSupportedProtocol(ParseProtocol(port.protocol))

\* C5: sibling checks do not suppress each other: ValidateEgressRule reports
\* a range failure for every port whose number is outside [1,65535] and a
\* protocol failure for every port whose protocol is not egress-supported,
\* also when both hold of the same port.
C5_BothPortFailuresReported ==
  (op = "ValidateEgressRule" /\ config.kind = "EgressRule") =>
    /\ CountOf(Failures(ret), "port number must be in the range 1..65535")
         = Cardinality({i \in 1..Len(config.ports) : PortOutOfRange(config.ports[i])})
    /\ CountOf(Failures(ret), "egress rule support is available only for the following protocols")
         = Cardinality({i \in 1..Len(config.ports) :
                          ProtocolNotEgressSupported(config.ports[i])})

\* C6: every validator call returns an aggregated result, absent or a list
\* of failures, also on objects with unset sub-messages; no call aborts.
C6_EveryCallReturns ==
  op # "none" => ret.tag \in {"nil", "single", "multi", "true", "false"}

-----------------------------------------------------------------------------
(* Virtual service and legacy route rule *)

\* ValidateVirtualService was called on a virtual service
VirtualServiceValidated ==
  op = "ValidateVirtualService" /\ config.kind = "VirtualService"

\* ValidateRouteRule was called on a route rule
RouteRuleValidated == op = "ValidateRouteRule" /\ config.kind = "RouteRule"

\* the HTTP routes of the virtual service that satisfy P
HTTPRoutesWhere(P(_)) == {i \in 1..Len(config.http) : P(config.http[i])}

\* the HTTP route has more than one destination and the weights sum to
\* more than 100
OverWeight(http) ==
  Len(http.route) > 1 /\ SumsToMoreThan100(WeightsOf(http.route))

\* the HTTP route has more than one destination and the weights sum to
\* less than 100
UnderWeight(http) ==
  /\ Len(http.route) > 1
  /\ ~SumsToMoreThan100(WeightsOf(http.route))
  /\ ~SumsTo100(WeightsOf(http.route))

\* C13: the virtual service gets one total-weight failure for each HTTP
\* route that has more than one destination and weights that sum to more
\* than 100, and no other total-weight failure; the weights of a route with
\* several destinations that sum to less than 100 fail ValidateWeights.
C13_TotalWeightOver100 ==
  VirtualServiceValidated =>
    /\ CountOf(Failures(ret), "total destination weight > 100")
         = Cardinality(HTTPRoutesWhere(OverWeight))
    /\ \A i \in HTTPRoutesWhere(UnderWeight) :
         ~IsNil(ValidateWeights(config.http[i].route))

\* 1 for a condition that holds, 0 for one that does not
OneIf(cond) == IF cond THEN 1 ELSE 0

\* the number of failures m of the result
Reported(m) == CountOf(Failures(ret), m)

HTTPRedirectWithRoute(http) == http.redirect # NilPtr /\ Len(http.route) > 0

HTTPRedirectWithFault(http) == http.redirect # NilPtr /\ http.fault # NilPtr

HTTPRedirectWithRewrite(http) == http.redirect # NilPtr /\ http.rewrite # NilPtr

\* C17: a rule that sets redirect together with a non-empty route list, with
\* fault injection or with rewrite is rejected, and the result holds one
\* failure for each of the three conflicts that is present and none for a
\* conflict that is not, in the legacy route rule and in every HTTP route of
\* a virtual service.
C17_RedirectExclusions ==
  /\ RouteRuleValidated =>
       /\ Reported("rule cannot contain both route and redirect")
            = OneIf(config.redirect # NilPtr /\ SliceLen(config.route) > 0)
       /\ Reported("rule cannot contain both fault and redirect")
            = OneIf(config.redirect # NilPtr /\ config.httpFault # NilPtr)
       /\ Reported("rule cannot contain both rewrite and redirect")
            = OneIf(config.redirect # NilPtr /\ config.rewrite # NilPtr)
  /\ VirtualServiceValidated =>
       /\ Reported("HTTP route cannot contain both route and redirect")
            = Cardinality(HTTPRoutesWhere(HTTPRedirectWithRoute))
       /\ Reported("HTTP route cannot contain both fault and redirect")
            = Cardinality(HTTPRoutesWhere(HTTPRedirectWithFault))
       /\ Reported("HTTP route rule cannot contain both rewrite and redirect")
            = Cardinality(HTTPRoutesWhere(HTTPRedirectWithRewrite))

\* an HTTP route with a valid redirect, a route list, a fault and a rewrite
\* was rejected with the three conflicts and nothing else
C17_Witness ==
  /\ VirtualServiceValidated
  /\ Len(config.http) = 1
  /\ HTTPRedirectWithRoute(config.http[1])
  /\ HTTPRedirectWithFault(config.http[1])
  /\ HTTPRedirectWithRewrite(config.http[1])
  /\ Failures(ret) = <<"HTTP route cannot contain both route and redirect",
                       "HTTP route cannot contain both fault and redirect",
                       "HTTP route rule cannot contain both rewrite and redirect">>

\* exactly one of a, b
ExactlyOne(a, b) == (a /\ ~b) \/ (~a /\ b)

HTTPNeitherRedirectNorRoute(http) == http.redirect = NilPtr /\ Len(http.route) = 0

\* a rule is accepted only if exactly one of redirect and non-empty route
\* list is set, in the legacy route rule and in every HTTP route of a
\* virtual service
C18_ExactlyOneOfRedirectAndRoute ==
  /\ (RouteRuleValidated /\ IsNil(ret)) =>
       ExactlyOne(config.redirect # NilPtr, SliceLen(config.route) > 0)
  /\ (VirtualServiceValidated /\ IsNil(ret)) =>
       \A i \in 1..Len(config.http) :
         ExactlyOne(config.http[i].redirect # NilPtr, Len(config.http[i].route) > 0)

\* C18: an HTTP route of a virtual service is accepted only if exactly one
\* of redirect and non-empty route list is set; a route with neither gets a
\* failure of its own, as a route with both does.  A legacy route rule is
\* accepted only if at most one of the two is set: the rule with both gets
\* the failure, the rule with neither gets none.
C18_RedirectOrRoute ==
  /\ VirtualServiceValidated =>
       /\ Reported("HTTP route or redirect is required")
            = Cardinality(HTTPRoutesWhere(HTTPNeitherRedirectNorRoute))
       /\ IsNil(ret) =>
            \A i \in 1..Len(config.http) :
              ExactlyOne(config.http[i].redirect # NilPtr, Len(config.http[i].route) > 0)
  /\ RouteRuleValidated =>
       /\ IsNil(ret) => ~(config.redirect # NilPtr /\ SliceLen(config.route) > 0)
       /\ (config.redirect # NilPtr /\ SliceLen(config.route) > 0) =>
            Reported("rule cannot contain both route and redirect") = 1
       /\ (config.redirect = NilPtr /\ config.route = NilPtr) =>
            Reported("route weights must total 100") = 0
       /\ config = BaseRouteRule => IsNil(ret)

\* a legacy route rule with neither a redirect nor a route list was accepted
C18_Witness ==
  /\ RouteRuleValidated
  /\ config.redirect = NilPtr
  /\ config.route = NilPtr
  /\ IsNil(ret)

\* the name holds an upper-case character
HasUpperCase(name) == \E i \in 1..Len(name) : LowerOf(name[i]) # name[i]

\* the number of defects of the appended headers h: empty names, names with
\* an upper-case character, and empty values
HeaderDefects(h) ==
  Cardinality({k \in DOMAIN h : k = <<>>})
  + Cardinality({k \in DOMAIN h : HasUpperCase(k)})
  + Cardinality({k \in DOMAIN h : h[k] = <<>>})

RECURSIVE SumOver(_, _)
SumOver(f(_), s) == IF s = <<>> THEN 0 ELSE f(Head(s)) + SumOver(f, Tail(s))

HTTPHeaderDefects(http) == HeaderDefects(http.appendHeaders)

\* C19: every appended header with an empty name, with a name that holds an
\* upper-case character, or with an empty value produces a failure: the
\* result of the legacy route rule, and of a virtual service over its HTTP
\* routes, holds at least one failure for each such defect.
C19_AppendedHeaders ==
  /\ RouteRuleValidated => Len(Failures(ret)) >= HeaderDefects(config.appendHeaders)
  /\ VirtualServiceValidated =>
       Len(Failures(ret)) >= SumOver(HTTPHeaderDefects, config.http)

-----------------------------------------------------------------------------
(* Gateway port names *)

\* the servers of the gateway whose port name is the port name of an
\* earlier server
RepeatedPortNames(servers) ==
  {i \in 1..Len(servers) :
     /\ servers[i].port # NilPtr
     /\ \E j \in 1..(i - 1) :
          servers[j].port # NilPtr /\ servers[j].port.name = servers[i].port.name}

\* C20: ValidateGateway reports one duplicate-port-name failure for every
\* server whose port name is the port name of an earlier server and none
\* when the port names are pairwise distinct; the gateway of two valid
\* servers whose ports are both named http fails with exactly that failure.
C20_UniquePortNames ==
  (op = "ValidateGateway" /\ config.kind = "Gateway") =>
    /\ Reported("port names in servers must be unique: duplicate name")
         = Cardinality(RepeatedPortNames(config.servers))
    /\ (/\ Len(config.servers) = 2
        /\ \A i \in 1..2 : /\ config.servers[i] \in NamedPortServers
                           /\ config.servers[i].port # NilPtr
                           /\ config.servers[i].port.name = sHTTP) =>
         Failures(ret) = <<"port names in servers must be unique: duplicate name">>

-----------------------------------------------------------------------------
(* Gateway server checks *)

GatewayValidated == op = "ValidateGateway" /\ config.kind = "Gateway"

\* the host is neither a valid wildcard domain nor a valid IPv4 subnet
NeitherDomainNorSubnet(host) ==
  ~IsNil(ValidateWildcardDomain(host)) /\ ~IsNil(ValidateIPv4Subnet(host))

\* the failures ValidateWildcardDomain and ValidateIPv4Subnet can give
HostFailureTexts ==
  {"domain name too long (max 255)", "empty domain name not allowed",
   "domain name invalid (label invalid)", "is not a valid CIDR block",
   "is not a valid IPv4 address", "is not a valid IP"}

\* the number of failures about hosts in the result
HostFailuresReported ==
  Cardinality({i \in 1..Len(Failures(ret)) : Failures(ret)[i] \in HostFailureTexts})

\* the number of hosts of the server that are neither a domain nor a subnet
BadHosts(server) ==
  Cardinality({i \in 1..Len(server.hosts) : NeitherDomainNorSubnet(server.hosts[i])})

\* the number of servers of the gateway whose TLS block satisfies P
RECURSIVE ServersWhere(_, _)
ServersWhere(P(_), servers) ==
  IF servers = <<>> THEN 0
  ELSE OneIf(Head(servers).tls # NilPtr /\ P(Head(servers).tls))
       + ServersWhere(P, Tail(servers))

SimpleNoCertificate(tls) == tls.mode = "SIMPLE" /\ tls.serverCertificate = ""
MutualNoCertificate(tls) == tls.mode = "MUTUAL" /\ tls.serverCertificate = ""
MutualNoCABundle(tls) == tls.mode = "MUTUAL" /\ tls.caCertificates = ""

\* C21: ValidateGateway fails on an empty server list; every host that is
\* neither a valid wildcard domain nor a valid IPv4 subnet contributes both
\* underlying failures to the result and every other host none; every server
\* with TLS mode SIMPLE and no server certificate contributes one failure,
\* every server with TLS mode MUTUAL one for an empty server certificate and
\* another for an empty CA bundle, and a server without a TLS block none.
C21_GatewayServerChecks ==
  GatewayValidated =>
    /\ Len(config.servers) = 0 =>
         Failures(ret) = <<"gateway must have at least one server">>
    /\ HostFailuresReported = 2 * SumOver(BadHosts, config.servers)
    /\ Reported("SIMPLE TLS requires a server certificate")
         = ServersWhere(SimpleNoCertificate, config.servers)
    /\ Reported("MUTUAL TLS requires a server certificate")
         = ServersWhere(MutualNoCertificate, config.servers)
    /\ Reported("MUTUAL TLS requires a client CA bundle")
         = ServersWhere(MutualNoCABundle, config.servers)

-----------------------------------------------------------------------------
(* Service entry: resolution modes *)

ServiceEntryValidated == op = "ValidateServiceEntry" /\ config.kind = "ServiceEntry"

IsUnixEndpoint(endpoint) == HasPrefix(endpoint.address, UnixAddressPrefix)

\* 1 for an endpoint that is not a unix endpoint and whose address is not
\* an IPv4 address in dotted-decimal notation
NotIPv4Endpoint(endpoint) ==
  OneIf(~IsUnixEndpoint(endpoint) /\ ~IsDottedQuad(endpoint.address))

\* 1 for an address of the service entry that is a CIDR block of IPv6
IPv6Block(address) == OneIf(ParseCIDR(address) = "v6")

\* the number of port names of an endpoint that is not a unix endpoint
\* which no port of the service entry declares
UndeclaredPorts(endpoint) ==
  IF IsUnixEndpoint(endpoint) THEN 0
  ELSE Cardinality({n \in DOMAIN endpoint.ports :
                      \A i \in 1..Len(config.ports) : config.ports[i].name # n})

\* the string is a fully qualified domain name without a wildcard
IsFQDN(s) == IsNil(ValidateFQDN(s))

NotFQDNEndpoint(endpoint) == OneIf(~IsFQDN(endpoint.address))
NotFQDNHost(host) == OneIf(~IsFQDN(host))

\* C22: the resolution mode gates the endpoints of a service entry.  NONE:
\* one failure when there is any endpoint.  STATIC: one failure for an
\* empty endpoint list, one for every endpoint outside unix whose address
\* is not an IPv4 address, one for every port name of such an endpoint that
\* the service does not declare.  DNS: at least one failure for every
\* endpoint whose address is not an FQDN and, without endpoints, one
\* for every host that is not an FQDN, a host with a wildcard among them.
\* Every other resolution value: one unsupported-resolution failure.
C22_ResolutionGatesEndpoints ==
  ServiceEntryValidated =>
    LET endpoints == config.endpoints
        r == config.resolution
    IN /\ Reported("no endpoints should be provided for discovery type none")
            = OneIf(r = "NONE" /\ Len(endpoints) # 0)
       /\ Reported("endpoints must be provided if service entry discovery mode is static")
            = OneIf(r = "STATIC" /\ Len(endpoints) = 0)
       /\ r = "STATIC" =>
            /\ Reported("is not a valid IP") + Reported("is not a valid IPv4 address")
                 = SumOver(NotIPv4Endpoint, endpoints) + SumOver(IPv6Block, config.addresses)
            /\ Reported("endpoint port is not defined by the service entry")
                 = SumOver(UndeclaredPorts, endpoints)
       /\ r = "DNS" =>
            /\ Len(Failures(ret)) >= SumOver(NotFQDNEndpoint, endpoints)
            /\ Reported("hosts must be FQDN if no endpoints are provided for discovery mode DNS")
                 = IF Len(endpoints) = 0 THEN SumOver(NotFQDNHost, config.hosts) ELSE 0
            /\ (/\ Len(endpoints) = 0
                /\ \E i \in 1..Len(config.hosts) : Contains(config.hosts[i], "*")) => ~IsNil(ret)
       /\ Reported("unsupported resolution type")
            = OneIf(r \notin {"NONE", "STATIC", "DNS"})

\* a STATIC entry with an endpoint outside unix whose address is not IPv4
\* and with two endpoint port names the service does not declare has been
\* validated
C22_Witness ==
  /\ ServiceEntryValidated
  /\ config.resolution = "STATIC"
  /\ SumOver(NotIPv4Endpoint, config.endpoints) = 1
  /\ SumOver(UndeclaredPorts, config.endpoints) = 2
  /\ Len(Failures(ret)) >= 3

-----------------------------------------------------------------------------
(* Service entry: unix endpoints *)

\* the number of unix endpoints of the validated entry that satisfy P
UnixEndpointsWhere(P(_)) ==
  Cardinality({i \in 1..Len(config.endpoints) :
                 IsUnixEndpoint(config.endpoints[i]) /\ P(config.endpoints[i])})

\* the path of a unix endpoint: what follows the prefix unix://
UnixPath(endpoint) ==
  SubSeq(endpoint.address, Len(UnixAddressPrefix) + 1, Len(endpoint.address))

CarriesPorts(endpoint) == DOMAIN endpoint.ports # {}
EmptyPath(endpoint) == UnixPath(endpoint) = <<>>
RelativePath(endpoint) == UnixPath(endpoint) # <<>> /\ UnixPath(endpoint)[1] # "/"
AnyEndpoint(endpoint) == TRUE

\* the service entry of the scenario: resolution STATIC, one endpoint at a
\* unix address with an absolute path, two declared service ports
UnixScenario ==
  [kind |-> "ServiceEntry", hosts |-> <<sADotA>>, addresses |-> <<>>,
   ports |-> <<[name |-> sA, number |-> 80, protocol |-> "HTTP"],
               [name |-> sC, number |-> 81, protocol |-> "TCP"]>>,
   resolution |-> "STATIC",
   endpoints |-> <<[address |-> sUnix, ports |-> EmptyMap, labels |-> EmptyMap]>>]

\* C23: ValidateServiceEntry reports "exactly 1 service port required for
\* unix endpoints" exactly when the resolution is STATIC, some endpoint
\* address has the prefix unix:// and the number of declared service ports
\* is not 1; in STATIC mode it reports one failure for each unix endpoint
\* that carries ports, one for each whose path is empty and one for each
\* whose path is not absolute; the entry of the scenario fails with the
\* service-port failure and no other.
C23_UnixEndpoints ==
  ServiceEntryValidated =>
    /\ Reported("exactly 1 service port required for unix endpoints")
         = OneIf(/\ config.resolution = "STATIC"
                 /\ UnixEndpointsWhere(AnyEndpoint) > 0
                 /\ Len(config.ports) # 1)
    /\ config.resolution = "STATIC" =>
         /\ Reported("unix endpoint must not include ports")
              = UnixEndpointsWhere(CarriesPorts)
         /\ Reported("unix address must not be empty") = UnixEndpointsWhere(EmptyPath)
         /\ Reported("is not an absolute path") = UnixEndpointsWhere(RelativePath)
    /\ config = UnixScenario =>
         Failures(ret) = <<"exactly 1 service port required for unix endpoints">>

\* the entry of the scenario has been validated
C23_Witness == ServiceEntryValidated /\ config = UnixScenario /\ ~IsNil(ret)

-----------------------------------------------------------------------------
(* Service entry: unique ports *)

\* the declared ports whose name is the name of an earlier declared port
RepeatedServicePortNames(ports) ==
  {i \in 1..Len(ports) : \E j \in 1..(i - 1) : ports[j].name = ports[i].name}

\* the declared ports whose number is the number of an earlier declared port
RepeatedServicePortNumbers(ports) ==
  {i \in 1..Len(ports) : \E j \in 1..(i - 1) : ports[j].number = ports[i].number}

\* C24: ValidateServiceEntry reports one failure for every declared port
\* whose name is the name of an earlier declared port and, independently,
\* one for every declared port whose number is the number of an earlier
\* declared port; with names pairwise distinct and numbers pairwise
\* distinct it reports no uniqueness failure.
C24_UniqueServicePorts ==
  ServiceEntryValidated =>
    /\ Reported("service entry port name already defined")
         = Cardinality(RepeatedServicePortNames(config.ports))
    /\ Reported("service entry port already defined")
         = Cardinality(RepeatedServicePortNumbers(config.ports))

\* an entry with a repeated port name and no repeated port number, and so
\* with a name failure and no number failure, has been validated
C24_Witness ==
  /\ ServiceEntryValidated
  /\ Cardinality(RepeatedServicePortNames(config.ports)) = 1
  /\ Cardinality(RepeatedServicePortNumbers(config.ports)) = 0
  /\ Reported("service entry port name already defined") = 1
  /\ Reported("service entry port already defined") = 0

-----------------------------------------------------------------------------
(* Authentication policy *)

PolicyValidated == op = "ValidateAuthenticationPolicy" /\ config.kind = "Policy"

\* the call returned a failure or a list of failures
Rejected == ret.tag \in {"single", "multi"}

\* the failures about the name of the policy
NamingFailureTexts ==
  {"authentication policy with no target rules must be named default",
   "authentication policy with the default name must not have any target rules",
   "cluster-scoped authentication policy name must be default",
   "cluster-scoped authentication policy must not have targets"}

NamingFailuresReported ==
  Cardinality({i \in 1..Len(Failures(ret)) : Failures(ret)[i] \in NamingFailureTexts})

\* the policy breaks the naming rule of its scope
NamingViolated ==
  LET clusterScoped == arg.namespace = ""
      isDefault == arg.name = DefaultAuthenticationPolicyName
      hasTargets == Len(config.targets) > 0
  IN IF clusterScoped THEN ~(isDefault /\ ~hasTargets)
     ELSE (~hasTargets /\ ~isDefault) \/ (hasTargets /\ isDefault)

\* C25: ValidateAuthenticationPolicy rejects a cluster-scoped policy unless
\* it has the default name and no target rules, rejects a namespace-scoped
\* policy that has no target rules and another name than the default, or
\* target rules and the default name, and reports no naming failure in the
\* remaining cases.
C25_PolicyNaming ==
  PolicyValidated =>
    /\ NamingViolated => Rejected /\ NamingFailuresReported >= 1
    /\ ~NamingViolated => NamingFailuresReported = 0

\* the JWTs of the policy in the order the validator scans them: those of
\* the peer methods that are JWT methods, then those of the origin methods
RECURSIVE JwtsOf(_)
JwtsOf(methods) ==
  IF methods = <<>> THEN <<>>
  ELSE (IF Head(methods).jwt = NilPtr THEN <<>> ELSE <<Head(methods).jwt>>)
       \o JwtsOf(Tail(methods))

ScannedJwts(policy) == JwtsOf(policy.peers) \o JwtsOf(policy.origins)

\* the JWTs whose issuer is the issuer of an earlier JWT of the scan
RepeatedIssuers(jwts) ==
  {i \in 1..Len(jwts) : \E j \in 1..(i - 1) : jwts[j].issuer = jwts[i].issuer}

\* C26: scanning the peer JWT methods and then the origin JWT methods,
\* ValidateAuthenticationPolicy reports one duplicate-issuer failure for
\* every JWT whose issuer an earlier JWT of the policy has, peer or origin,
\* and none when the issuers are pairwise distinct; peer methods that are
\* not JWT methods are ignored.
C26_UniqueIssuers ==
  PolicyValidated =>
    Reported("jwt with issuer already defined")
      = Cardinality(RepeatedIssuers(ScannedJwts(config)))

-----------------------------------------------------------------------------
(* Unsupported features *)

UnsupportedAbortTypes == {"grpcStatus", "http2Error"}

\* the HTTP fault of the legacy rule holds an abort of an unsupported type
LegacyUnsupportedAbort(rule) ==
  /\ rule.httpFault # NilPtr
  /\ rule.httpFault.abort # NilPtr
  /\ rule.httpFault.abort.errorType \in UnsupportedAbortTypes

LegacyExponentialDelay(rule) ==
  /\ rule.httpFault # NilPtr
  /\ rule.httpFault.delay # NilPtr
  /\ rule.httpFault.delay.exponentialDelay # NilPtr

LegacyTerminate(rule) == rule.l4Fault # NilPtr /\ rule.l4Fault.terminate # NilPtr

\* the fault of the HTTP route holds an abort of an unsupported type
HTTPUnsupportedAbort(http) ==
  /\ http.fault # NilPtr
  /\ http.fault.abort # NilPtr
  /\ http.fault.abort.errorType \in UnsupportedAbortTypes

HTTPExponentialDelay(http) ==
  /\ http.fault # NilPtr
  /\ http.fault.delay # NilPtr
  /\ http.fault.delay.httpDelayType = "exponentialDelay"

\* C27: an HTTP abort whose error type is gRPC status or HTTP/2 error, an
\* exponential delay and an L4 terminate fault each produce a failure, in
\* the legacy route rule and in the virtual service alike, and an RBAC
\* config is rejected in the modes with inclusion and with exclusion and
\* accepted in the modes ON and OFF.
C27_UnsupportedFeatures ==
  /\ RouteRuleValidated =>
       /\ LegacyUnsupportedAbort(config) => Rejected
       /\ LegacyExponentialDelay(config) =>
            Reported("exponentialDelay not supported yet") = 1
       /\ LegacyTerminate(config) =>
            Reported("the terminate fault not supported yet") = 1
  /\ VirtualServiceValidated =>
       /\ Reported("gRPC abort fault injection not supported yet")
          + Reported("HTTP/2 abort fault injection not supported yet")
            = Cardinality(HTTPRoutesWhere(HTTPUnsupportedAbort))
       /\ Reported("exponentialDelay not supported yet")
            = Cardinality(HTTPRoutesWhere(HTTPExponentialDelay))
  /\ (op = "ValidateRbacConfig" /\ config.kind = "RbacConfig") =>
       /\ config.mode \in {"ON_WITH_INCLUSION", "ON_WITH_EXCLUSION"} => Rejected
       /\ config.mode \in {"ON", "OFF"} => IsNil(ret)

-----------------------------------------------------------------------------
(* Concurrent invocation *)

-----------------------------------------------------------------------------
(* HTTP API spec: the top-level attributes *)

HTTPAPISpecValidated == op = "ValidateHTTPAPISpec" /\ config.kind = "HTTPAPISpec"

\* the failures ValidateMixerAttributes gives on the attributes of the inputs
AttributeFailureTexts ==
  {"list of attributes is nil/empty", "string attribute should not be empty"}

\* the number of attribute failures in an outcome
AttributeFailuresIn(e) ==
  Cardinality({i \in 1..Len(Failures(e)) : Failures(e)[i] \in AttributeFailureTexts})

\* the pattern has a method and a URI template or regular expression
WellFormedPattern(pattern) == pattern.httpMethod # "" /\ pattern.value # ""

\* the attribute maps of the inputs hold one key at most, so that every
\* order of the keys gives the same result
SomeKeyOrder == CHOOSE ord \in KeyOrders : TRUE

\* C29: the top-level attribute list of an HTTP API spec is optional: a
\* spec without top-level attributes, with at least one pattern, all its
\* patterns well-formed, and without API keys, is accepted; and the number
\* of attribute failures in the result is the number in the result of every
\* other spec with the same attributes, whatever the number of its patterns.
C29_AttributesOptional ==
  HTTPAPISpecValidated =>
    /\ (/\ config.attributes = NilPtr
        /\ Len(config.patterns) >= 1
        /\ \A i \in 1..Len(config.patterns) : WellFormedPattern(config.patterns[i])
        /\ config.apiKeys = <<>>) => IsNil(ret)
    /\ \A other \in HTTPAPISpecs :
         other.attributes = config.attributes =>
           AttributeFailuresIn(ValidateHTTPAPISpec(other, SomeKeyOrder))
             = AttributeFailuresIn(ret)

-----------------------------------------------------------------------------
(* Route lists of at most one entry *)

\* C30: ValidateWeights on a route list of at most one entry succeeds if
\* and only if the list has one entry and its weight is 0 or 100; every
\* other single weight, and the empty list, is refused with the one failure
\* of the total.  Through ValidateRouteRule: a route list that is not nil
\* and has at most one entry gives that failure unless it holds one entry
\* of weight 0 or 100.
C30_AtMostOneEntry ==
  /\ (op = "ValidateWeights" /\ Len(arg.routes) <= 1) =>
       /\ IsNil(ret) <=> (Len(arg.routes) = 1 /\ arg.routes[1].weight \in {0, 100})
       /\ ~IsNil(ret) => Failures(ret) = <<"route weights must total 100">>
  /\ (RouteRuleValidated /\ config.route # NilPtr /\ SliceLen(config.route) <= 1) =>
       Reported("route weights must total 100")
         = OneIf(~(/\ SliceLen(config.route) = 1
                   /\ config.route.elems[1].weight \in {0, 100}))

\* the single entry of weight 50 was refused
C30_Witness ==
  /\ op = "ValidateWeights"
  /\ WeightsOf(arg.routes) = <<50>>
  /\ Failures(ret) = <<"route weights must total 100">>

====
